---- MODULE Spec2Model ----
(***************************************************************************)
(* Verification model of src/recovery_api.py: the workout plan generator   *)
(* (generate_workout_plan and its helpers) and the metric primitives.      *)
(*                                                                         *)
(* Python floats are modelled as fixed-point integers in thousandths       *)
(* (100 kg = 100000, RPE 8.5 = 8500); every float division is a division   *)
(* rounded to the nearest thousandth.  Fields the code rounds before       *)
(* returning them are integers in the unit of the rounding (round(x, 1)    *)
(* gives tenths, round(x, 2) gives hundredths).  Python None and a         *)
(* missing dict key are the value None.                                    *)
(***************************************************************************)
EXTENDS Integers, Sequences, FiniteSets, TLC

VARIABLES training_history, goal, training_days, recovery_score, plan_result,
          cap_recovery, cap_avg_rpe, cap_result,
          rpe_weight, rpe_reps, rpe_rpe, rpe_result,
          call, ret,
          table_writes,
          requested, log

vars == <<training_history, goal, training_days, recovery_score, plan_result,
          cap_recovery, cap_avg_rpe, cap_result,
          rpe_weight, rpe_reps, rpe_rpe, rpe_result,
          call, ret,
          table_writes,
          requested, log>>

planVars == <<training_history, goal, training_days, recovery_score, plan_result>>

capVars == <<cap_recovery, cap_avg_rpe, cap_result>>

rpeVars == <<rpe_weight, rpe_reps, rpe_rpe, rpe_result>>

\* a call of one of the other scorers: call = [fn, args], ret = what it returned
callVars == <<call, ret>>

\* the state of the process across calls.  table_writes: the item assignments made to the
\* module-level tables since the import, oldest first ([table, path, value] stands for
\* TABLE[path[1]][path[2]]... = value).  requested and log: the caller's record of a run of
\* calls, the inputs of the call in progress as it passed them and the calls that returned
\* before it with what they returned
processVars == <<table_writes, requested, log>>

-----------------------------------------------------------------------------
(* Bounds of the model *)

MaxSessions == 2

MaxDays == 8

MaxWeightKg == 100

\* longest session list of the detraining histories
MaxRecentSessions == 4

\* longest session list given to predict_next_strength
MaxStrengthSessions == 6

\* longest session list given to detect_overtraining_risk
MaxRiskSessions == 6

\* longest rest, in hours, given to calculate_recovery_score
MaxHours == 72

\* longest run of calls in one process
MaxCalls == 3

\* longest session list of one exercise in the weekly-template histories
MaxWeekSessions == 3
\* longest session list in the calls that fill the 7-session window of detect_overtraining_risk
MaxFrequencySessions == 7

-----------------------------------------------------------------------------
(* Values *)

None == -1

Milli == 1000

\* a call that has not returned yet
Pending == [status |-> "pending"]

\* no call of this operation is made
Idle == [status |-> "idle"]

\* round(): nearest integer of a / b, ties to even (b > 0)
RoundDiv(a, b) ==
    LET q == a \div b
        r == a % b
    IN  IF 2 * r < b THEN q
        ELSE IF 2 * r > b THEN q + 1
        ELSE IF q % 2 = 0 THEN q ELSE q + 1

\* dict.get(key, default)
Get(v, default) == IF v = None THEN default ELSE v

RECURSIVE SumSeq(_)
SumSeq(s) == IF s = <<>> THEN 0 ELSE Head(s) + SumSeq(Tail(s))

\* np.mean of a non-empty list
Mean(s) == RoundDiv(SumSeq(s), Len(s))

\* s[-n:]
LastN(s, n) == IF Len(s) > n THEN SubSeq(s, Len(s) - n + 1, Len(s)) ELSE s

Min2(a, b) == IF a < b THEN a ELSE b

Max2(a, b) == IF a > b THEN a ELSE b

UpperCase == <<"A","B","C","D","E","F","G","H","I","J","K","L","M",
               "N","O","P","Q","R","S","T","U","V","W","X","Y","Z">>

LowerCase == <<"a","b","c","d","e","f","g","h","i","j","k","l","m",
               "n","o","p","q","r","s","t","u","v","w","x","y","z">>

LowerChar(c) ==
    IF \E i \in 1..26 : UpperCase[i] = c
    THEN LowerCase[CHOOSE i \in 1..26 : UpperCase[i] = c]
    ELSE c

\* str.lower()
RECURSIVE Lower(_)
Lower(s) ==
    IF Len(s) = 0 THEN ""
    ELSE LowerChar(SubSeq(s, 1, 1)) \o Lower(SubSeq(s, 2, Len(s)))

\* key in s  (substring test)
Contains(s, key) ==
    \E i \in 1..(Len(s) - Len(key) + 1) : SubSeq(s, i, i + Len(key) - 1) = key

\* any(x in s for x in keys)
AnyIn(s, keys) == \E k \in 1..Len(keys) : Contains(s, keys[k])

-----------------------------------------------------------------------------
(* Static lookup tables *)

EXERCISE_PROGRESSION_RATES ==
    << [key |-> "squat",          rate |-> 2500, text |-> "2.5"],
       [key |-> "deadlift",       rate |-> 2500, text |-> "2.5"],
       [key |-> "bench_press",    rate |-> 1250, text |-> "1.25"],
       [key |-> "bench",          rate |-> 1250, text |-> "1.25"],
       [key |-> "overhead_press", rate |-> 625,  text |-> "0.625"],
       [key |-> "press",          rate |-> 625,  text |-> "0.625"],
       [key |-> "row",            rate |-> 1250, text |-> "1.25"],
       [key |-> "pull",           rate |-> 625,  text |-> "0.625"],
       [key |-> "curl",           rate |-> 500,  text |-> "0.5"],
       [key |-> "lateral",        rate |-> 250,  text |-> "0.25"],
       [key |-> "tricep",         rate |-> 500,  text |-> "0.5"],
       [key |-> "default",        rate |-> 1000, text |-> "1.0"] >>

\* intensity is the percentage of the estimated 1RM (0.90 = 90)
DUP_PATTERNS ==
    [ strength |->
        << [sets |-> 5, reps |-> 3,  intensity |-> 90, label |-> "Heavy"],
           [sets |-> 4, reps |-> 6,  intensity |-> 85, label |-> "Medium"],
           [sets |-> 3, reps |-> 5,  intensity |-> 87, label |-> "Moderate"] >>,
      hypertrophy |->
        << [sets |-> 3, reps |-> 10, intensity |-> 70, label |-> "Volume"],
           [sets |-> 4, reps |-> 8,  intensity |-> 75, label |-> "Medium"],
           [sets |-> 3, reps |-> 12, intensity |-> 65, label |-> "Pump"] >>,
      maintenance |->
        << [sets |-> 3, reps |-> 8,  intensity |-> 70, label |-> "Moderate"],
           [sets |-> 3, reps |-> 10, intensity |-> 65, label |-> "Light"],
           [sets |-> 3, reps |-> 6,  intensity |-> 75, label |-> "Medium"] >> ]

\* TABLE[path]: the literal of the import unless an assignment replaced it, then the last one
WrittenValue(table, path, literal) ==
    LET hits == { k \in 1..Len(table_writes) :
                    table_writes[k].table = table /\ table_writes[k].path = path }
    IN  IF hits = {} THEN literal
        ELSE table_writes[CHOOSE k \in hits : \A j \in hits : j <= k].value

\* EXERCISE_PROGRESSION_RATES as the process holds it now
exercise_progression_rates ==
    IF table_writes = <<>> THEN EXERCISE_PROGRESSION_RATES
    ELSE [k \in DOMAIN EXERCISE_PROGRESSION_RATES |->
            [f \in DOMAIN EXERCISE_PROGRESSION_RATES[k] |->
                WrittenValue("EXERCISE_PROGRESSION_RATES", <<k, f>>,
                             EXERCISE_PROGRESSION_RATES[k][f])]]

\* DUP_PATTERNS as the process holds it now
dup_patterns ==
    IF table_writes = <<>> THEN DUP_PATTERNS
    ELSE [g \in DOMAIN DUP_PATTERNS |->
            [i \in DOMAIN DUP_PATTERNS[g] |->
                [f \in DOMAIN DUP_PATTERNS[g][i] |->
                    WrittenValue("DUP_PATTERNS", <<g, i, f>>, DUP_PATTERNS[g][i][f])]]]

day_names == <<"Monday", "Tuesday", "Wednesday", "Thursday", "Friday", "Saturday", "Sunday">>

-----------------------------------------------------------------------------
(* Helpers of the plan generator *)

\* iteration order of the training_history dict
ExerciseOrder == <<"Squat", "bench_press", "bicep_curl">>

Exercises == {ExerciseOrder[k] : k \in 1..Len(ExerciseOrder)}

DayTypes == {"Full Body A", "Full Body B", "Push", "Pull", "Legs",
             "Upper A", "Lower A", "Upper B", "Lower B", "Upper", "Lower", "Full Body"}

\* exercise_name.lower(), tabulated over the exercise names of the model
LowerName == [e \in Exercises |-> Lower(e)]

\* the first entry of rates whose key occurs in the name, else its 'default' entry
FirstMatch(rates, exercise_lower) ==
    LET hits == { k \in 1..Len(rates) : Contains(exercise_lower, rates[k].key) }
    IN  IF hits # {}
        THEN rates[CHOOSE k \in hits : \A j \in hits : k <= j]
        ELSE rates[Len(rates)]

get_exercise_progression_entry(exercise_name) ==
    FirstMatch(exercise_progression_rates, LowerName[exercise_name])

\* the lookup in the table of the import, tabulated over the exercise names of the model
ProgressionAtImport == [e \in Exercises |-> FirstMatch(EXERCISE_PROGRESSION_RATES, LowerName[e])]

get_exercise_progression_rate(exercise_name) ==
    get_exercise_progression_entry(exercise_name).rate

\* get_exercise_progression_rate, tabulated over the exercise names of the model
ProgressionOf ==
    IF table_writes = <<>> THEN ProgressionAtImport
    ELSE [e \in Exercises |-> get_exercise_progression_entry(e)]

\* mutation of calculate_rpe_cap: the fatigue adjustment assigns the cap instead of taking the minimum
calculate_rpe_cap_Assign(recovery, avg_recent_rpe) ==
    LET base_cap ==
            IF recovery # None
            THEN IF recovery < 50 * Milli THEN 7000
                 ELSE IF recovery < 60 * Milli THEN 7500
                 ELSE IF recovery < 70 * Milli THEN 8000
                 ELSE IF recovery < 80 * Milli THEN 8500
                 ELSE 9500
            ELSE 9500
    IN  IF avg_recent_rpe > 8500 THEN 8000
        ELSE IF avg_recent_rpe > 8000 THEN 8500
        ELSE base_cap

calculate_rpe_cap(recovery, avg_recent_rpe) ==
    LET base_cap ==
            IF recovery # None
            THEN IF recovery < 50 * Milli THEN 7000
                 ELSE IF recovery < 60 * Milli THEN 7500
                 ELSE IF recovery < 70 * Milli THEN 8000
                 ELSE IF recovery < 80 * Milli THEN 8500
                 ELSE 9500
            ELSE 9500
    IN  IF avg_recent_rpe > 8500 THEN Min2(base_cap, 8000)
        ELSE IF avg_recent_rpe > 8000 THEN Min2(base_cap, 8500)
        ELSE base_cap

\* mutation of should_deload: the deload starts at the effort where the fatigue warning starts
should_deload_Early(avg_recent_rpe, recovery) ==
    IF avg_recent_rpe > 8300 THEN TRUE
    ELSE IF recovery # None /\ recovery < 50 * Milli THEN TRUE
    ELSE FALSE

should_deload(avg_recent_rpe, recovery) ==
    IF avg_recent_rpe > 8700 THEN TRUE
    ELSE IF recovery # None /\ recovery < 50 * Milli THEN TRUE
    ELSE FALSE

\* rpe_to_percent of the plan generator, .get(rpe, 85)
PlanRpeToPercent(rpe) ==
    CASE rpe = 10000 -> 100
      [] rpe = 9500  -> 97
      [] rpe = 9000  -> 94
      [] rpe = 8500  -> 91
      [] rpe = 8000  -> 88
      [] rpe = 7500  -> 85
      [] rpe = 7000  -> 82
      [] OTHER       -> 85

\* max(sessions, key=lambda x: x.get('weight', 0)): the first session of maximal weight
BestRecent(sessions) ==
    LET key(i) == Get(sessions[i].weight, 0)
        best == CHOOSE i \in 1..Len(sessions) :
                    /\ \A j \in 1..Len(sessions) : key(j) <= key(i)
                    /\ \A j \in 1..(i - 1) : key(j) < key(i)
    IN  sessions[best]

RecentSessions(sessions) ==
    IF Len(sessions) > 12 THEN LastN(sessions, 12) ELSE sessions

\* mutation of Qualifies: a single recent session is enough
Qualifies_OneSession(sessions) ==
    /\ sessions # <<>>
    /\ Len(RecentSessions(sessions)) >= 1

\* an exercise is analysed when its list is non-empty and has 2 or more recent sessions
Qualifies(sessions) ==
    /\ sessions # <<>>
    /\ Len(RecentSessions(sessions)) >= 2

\* the weight of the best recent set, best_recent.get('weight', avg_weight)
BestSetWeight(sessions, avg_weight) ==
    Get(BestRecent(LastN(RecentSessions(sessions), 3)).weight, avg_weight)

AnalyzeExercise(exercise, sessions) ==
    LET recent_sessions == RecentSessions(sessions)
        last5 == LastN(recent_sessions, 5)
        weights == [i \in 1..Len(last5) |-> Get(last5[i].weight, 0)]
        rpes == [i \in 1..Len(last5) |-> Get(last5[i].rpe, 8000)]
        avg_weight == Mean(weights)
        avg_rpe == Mean(rpes)
        progression_kg == ProgressionOf[exercise].rate
        progression_rate == IF avg_weight > 0
                            THEN RoundDiv(progression_kg * Milli, avg_weight)
                            ELSE 25
        best_recent == BestRecent(LastN(recent_sessions, 3))
        intensity_percent == PlanRpeToPercent(Get(best_recent.rpe, 8000))
        estimated_1rm == RoundDiv(BestSetWeight(sessions, avg_weight) * 100, intensity_percent)
    IN  [ avg_weight |-> avg_weight,
          avg_rpe |-> avg_rpe,
          progression_rate |-> progression_rate,
          progression_kg |-> progression_kg,
          estimated_1rm |-> estimated_1rm,
          recent_sessions |-> Len(recent_sessions) ]

-----------------------------------------------------------------------------
(* generate_workout_plan *)

\* keys of exercise_analysis, in dict order
AnalyzedExercises(history) ==
    SelectSeq(ExerciseOrder, LAMBDA e : e \in DOMAIN history /\ Qualifies(history[e]))

ExerciseAnalysis(history) ==
    [e \in {x \in DOMAIN history : Qualifies(history[x])} |-> AnalyzeExercise(e, history[e])]

\* mutation of PlanContext: avg_recent_rpe is the mean over the sessions of all exercises pooled
PlanContext_Pooled(history, recovery) ==
    LET names == AnalyzedExercises(history)
        analysis == ExerciseAnalysis(history)
        avg_recent_rpe ==
            RoundDiv(SumSeq([k \in 1..Len(names) |->
                                analysis[names[k]].avg_rpe * analysis[names[k]].recent_sessions]),
                     SumSeq([k \in 1..Len(names) |-> analysis[names[k]].recent_sessions]))
    IN  [ names |-> names,
          analysis |-> analysis,
          avg_recent_rpe |-> avg_recent_rpe,
          rpe_cap |-> calculate_rpe_cap(recovery, avg_recent_rpe),
          is_deload |-> should_deload(avg_recent_rpe, recovery) ]

\* what the generator derives once per call: the analysis and the fatigue gate
PlanContext(history, recovery) ==
    LET names == AnalyzedExercises(history)
        analysis == ExerciseAnalysis(history)
        avg_recent_rpe == Mean([k \in 1..Len(names) |-> analysis[names[k]].avg_rpe])
    IN  [ names |-> names,
          analysis |-> analysis,
          avg_recent_rpe |-> avg_recent_rpe,
          rpe_cap |-> calculate_rpe_cap(recovery, avg_recent_rpe),
          is_deload |-> should_deload(avg_recent_rpe, recovery) ]

TrainingSplit(days) ==
    IF days <= 2 THEN <<"Full Body A", "Full Body B">>
    ELSE IF days = 3 THEN <<"Push", "Pull", "Legs">>
    ELSE IF days = 4 THEN <<"Upper A", "Lower A", "Upper B", "Lower B">>
    ELSE IF days = 5 THEN <<"Push", "Pull", "Legs", "Upper", "Lower">>
    ELSE <<"Push", "Pull", "Legs", "Upper", "Lower", "Full Body">>

\* DUP_PATTERNS.get(goal, DUP_PATTERNS['hypertrophy'])
DupPattern(g) ==
    IF g \in DOMAIN dup_patterns THEN dup_patterns[g] ELSE dup_patterns["hypertrophy"]

\* split[i % len(split)], i counted from 0
DayType(days, i) == LET split == TrainingSplit(days) IN split[(i % Len(split)) + 1]

\* dup_pattern[i % len(dup_pattern)], i counted from 0
DupDay(g, i) == LET dup_pattern == DupPattern(g) IN dup_pattern[(i % Len(dup_pattern)) + 1]

\* does the exercise fit the day type
Include(day_type, exercise_name) ==
    LET exercise_lower == Lower(exercise_name)
    IN  IF Contains(day_type, "Full Body") THEN TRUE
        ELSE IF Contains(day_type, "Push") /\ AnyIn(exercise_lower, <<"bench", "press", "chest">>) THEN TRUE
        ELSE IF Contains(day_type, "Pull") /\ AnyIn(exercise_lower, <<"row", "pull", "deadlift">>) THEN TRUE
        ELSE IF Contains(day_type, "Legs") \/ Contains(day_type, "Lower")
             THEN AnyIn(exercise_lower, <<"squat", "leg", "deadlift">>)
        ELSE IF Contains(day_type, "Upper")
             THEN AnyIn(exercise_lower, <<"bench", "press", "row", "pull", "chest">>)
        ELSE FALSE

\* Include, tabulated over the day types and the exercise names of the model
IncludeOf == [d \in DayTypes |-> [e \in Exercises |-> Include(d, e)]]

\* mutation of TargetWeight: the progressed weight is kept, the 1RM percentage is not applied
TargetWeight_Progressed(analysis, g, dup_day, is_deload) ==
    IF is_deload THEN RoundDiv(analysis.avg_weight * 85, 100)
    ELSE IF g = "maintenance" THEN analysis.avg_weight
    ELSE analysis.avg_weight + analysis.progression_kg

\* target weight of an included exercise, thousandths of a kg
TargetWeight(analysis, g, dup_day, is_deload) ==
    LET deload_intensity_mult == IF is_deload THEN 85 ELSE 100
        progressed == IF is_deload THEN RoundDiv(analysis.avg_weight * deload_intensity_mult, 100)
                      ELSE IF g = "maintenance" THEN analysis.avg_weight
                      ELSE analysis.avg_weight + analysis.progression_kg
    IN  IF ~is_deload THEN RoundDiv(analysis.estimated_1rm * dup_day.intensity, 100)
        ELSE progressed

\* mutation of TargetSets: max(1, round(dup_day['sets'] * deload_volume_mult))
TargetSets_Rounded(dup_day, is_deload) ==
    LET sets == IF is_deload THEN RoundDiv(dup_day.sets * 5, 10) ELSE dup_day.sets
    IN  Max2(1, sets)

\* max(1, int(dup_day['sets'] * deload_volume_mult))
TargetSets(dup_day, is_deload) ==
    LET sets == IF is_deload THEN (dup_day.sets * 5) \div 10 ELSE dup_day.sets
    IN  Max2(1, sets)

\* mutation of TargetRpe: the effort of the template is prescribed whatever the cap
TargetRpe_Uncapped(dup_day, rpe_cap) == 7000 + (dup_day.intensity - 65) * 100

\* min(7.0 + (intensity - 0.65) * 10, rpe_cap), thousandths
TargetRpe(dup_day, rpe_cap) ==
    LET base_rpe == 7000 + (dup_day.intensity - 65) * 100
    IN  Min2(base_rpe, rpe_cap)

\* unrounded volume of one exercise entry, thousandths
ExerciseVolume(analysis, g, dup_day, is_deload) ==
    TargetWeight(analysis, g, dup_day, is_deload) * dup_day.reps * TargetSets(dup_day, is_deload)

\* (volume * target_rpe) / 10, thousandths
ExerciseStress(analysis, g, dup_day, is_deload, rpe_cap) ==
    RoundDiv(ExerciseVolume(analysis, g, dup_day, is_deload) * (TargetRpe(dup_day, rpe_cap) \div 100), 100)

\* mutation of ExerciseEntry: the deload halves the reps as well as the sets
ExerciseEntry_HalvedReps(exercise_name, analysis, g, dup_day, is_deload, rpe_cap) ==
    [ exercise |-> exercise_name,
      sets |-> TargetSets(dup_day, is_deload),
      reps |-> IF is_deload THEN Max2(1, dup_day.reps \div 2) ELSE dup_day.reps,
      weight_kg |-> RoundDiv(TargetWeight(analysis, g, dup_day, is_deload), 100),
      target_rpe |-> RoundDiv(TargetRpe(dup_day, rpe_cap), 100),
      notes |-> IF is_deload THEN "DELOAD - 50% volume, lighter weight"
                ELSE dup_day.label \o " day - " \o ToString(dup_day.intensity) \o "% 1RM" ]

ExerciseEntry(exercise_name, analysis, g, dup_day, is_deload, rpe_cap) ==
    [ exercise |-> exercise_name,
      sets |-> TargetSets(dup_day, is_deload),
      reps |-> dup_day.reps,
      weight_kg |-> RoundDiv(TargetWeight(analysis, g, dup_day, is_deload), 100),
      target_rpe |-> RoundDiv(TargetRpe(dup_day, rpe_cap), 100),
      notes |-> IF is_deload THEN "DELOAD - 50% volume, lighter weight"
                ELSE dup_day.label \o " day - " \o ToString(dup_day.intensity) \o "% 1RM" ]

\* names of the analysed exercises assigned to training day i (from 0)
DayExerciseNames(ctx, days, i) ==
    SelectSeq(ctx.names, LAMBDA e : IncludeOf[DayType(days, i)][e])

DayExercises(ctx, g, days, i) ==
    LET names == DayExerciseNames(ctx, days, i)
    IN  [k \in 1..Len(names) |->
            ExerciseEntry(names[k], ctx.analysis[names[k]], g, DupDay(g, i), ctx.is_deload, ctx.rpe_cap)]

DayVolume(ctx, g, days, i) ==
    LET names == DayExerciseNames(ctx, days, i)
    IN  SumSeq([k \in 1..Len(names) |->
            ExerciseVolume(ctx.analysis[names[k]], g, DupDay(g, i), ctx.is_deload)])

DayStress(ctx, g, days, i) ==
    LET names == DayExerciseNames(ctx, days, i)
    IN  SumSeq([k \in 1..Len(names) |->
            ExerciseStress(ctx.analysis[names[k]], g, DupDay(g, i), ctx.is_deload, ctx.rpe_cap)])

\* mutation of TrainingDayEntry: a training day that no exercise fits is entered as a rest day
TrainingDayEntry_RestDay(ctx, g, days, recovery, i) ==
    LET day_exercises == DayExercises(ctx, g, days, i)
    IN  << [day |-> day_names[i + 1], exercises |-> day_exercises,
            notes |-> IF day_exercises # <<>>
                      THEN DayType(days, i) \o " workout - " \o DupDay(g, i).label
                      ELSE "Rest day - Focus on recovery"] >>

\* the entry of training day i, or <<>> when no exercise fits the day
TrainingDayEntry(ctx, g, days, recovery, i) ==
    LET day_exercises == DayExercises(ctx, g, days, i)
        base == DayType(days, i) \o " workout - " \o DupDay(g, i).label
        workout_notes ==
            IF ctx.is_deload THEN base \o " [DELOAD WEEK]"
            ELSE IF recovery # None /\ recovery # 0 /\ recovery < 70 * Milli
                 THEN base \o " - RPE capped for recovery"
            ELSE base
    IN  IF day_exercises # <<>>
        THEN << [day |-> day_names[i + 1], exercises |-> day_exercises, notes |-> workout_notes] >>
        ELSE <<>>

RECURSIVE TrainingDayEntries(_, _, _, _, _)
TrainingDayEntries(ctx, g, days, recovery, n) ==
    IF n <= 0 THEN <<>>
    ELSE TrainingDayEntries(ctx, g, days, recovery, n - 1)
            \o TrainingDayEntry(ctx, g, days, recovery, n - 1)

\* day_names[k] with Python indexing: k in -7..6, a negative k counts from the end
PyDayName(k) == IF k >= 0 THEN day_names[k + 1] ELSE day_names[k + 8]

RestDayEntries(days) ==
    LET rest_days_needed == 7 - days
        idx == SelectSeq([i \in 1..Max2(rest_days_needed, 0) |-> days + i - 1],
                         LAMBDA k : k < 7)
    IN  [j \in 1..Len(idx) |->
            [day |-> PyDayName(idx[j]), exercises |-> <<>>, notes |-> "Rest day - Focus on recovery"]]

\* an index outside -7..6 raises IndexError
RaisesIndexError(days) ==
    \/ \E i \in 0..(days - 1) : i > 6
    \/ \E i \in 0..(7 - days - 1) : days + i < 7 /\ days + i < -7

ProgressionStrategy(g, is_deload) ==
    IF is_deload
    THEN "DELOAD WEEK: Reduce volume by 50%, lighter weights. Focus on recovery and technique refinement"
    ELSE IF g = "strength"
    THEN "Undulating periodization with exercise-specific progression. Rotate heavy (90%), medium (85%), and moderate (87%) days"
    ELSE IF g = "hypertrophy"
    THEN "Daily undulating periodization: Volume day (70%), Medium day (75%), Pump day (65%). Progress exercises at realistic rates"
    ELSE "Maintenance with variety: Rotate intensities to maintain fitness without fatigue accumulation"

\* the recommendation texts, without their leading pictograph
ExerciseFeedback(exercise) ==
    LET entry == ProgressionOf[exercise]
    IN  IF entry.rate >= 2500
        THEN << exercise \o ": Adding +" \o entry.text \o "kg per week (compound movement)" >>
        ELSE IF entry.rate < 1000
        THEN << exercise \o ": Small progressions (+" \o entry.text \o "kg) - normal for isolation exercises" >>
        ELSE <<>>

RECURSIVE FeedbackFor(_)
FeedbackFor(names) ==
    IF names = <<>> THEN <<>> ELSE ExerciseFeedback(Head(names)) \o FeedbackFor(Tail(names))

Recommendations(ctx, days, recovery) ==
    (IF ctx.is_deload
     THEN << "DELOAD RECOMMENDED: High fatigue detected - reduce volume and intensity this week" >>
     ELSE IF ctx.avg_recent_rpe > 8300
     THEN << "Fatigue is accumulating - deload may be needed soon" >>
     ELSE <<>>)
    \o (IF recovery # None /\ recovery < 60 * Milli
        THEN << "Low recovery score - prioritize 8+ hours sleep and stress management" >>
        ELSE IF recovery # None /\ recovery < 75 * Milli
        THEN << "Moderate recovery - RPE has been capped to prevent overtraining" >>
        ELSE <<>>)
    \o FeedbackFor(ctx.names)
    \o (IF Len(ctx.names) < 3
        THEN << "Consider adding more exercise variety for balanced development" >>
        ELSE <<>>)
    \o << "Training " \o ToString(days) \o " days/week with DUP - different intensities each session" >>

\* mutation of TotalVolume: the total is overwritten by each day instead of accumulated
TotalVolume_Overwrite(ctx, g, days, n) ==
    IF n <= 0 THEN 0 ELSE DayVolume(ctx, g, days, n - 1)

RECURSIVE TotalVolume(_, _, _, _)
TotalVolume(ctx, g, days, n) ==
    IF n <= 0 THEN 0
    ELSE TotalVolume(ctx, g, days, n - 1) + DayVolume(ctx, g, days, n - 1)

RECURSIVE TotalStress(_, _, _, _)
TotalStress(ctx, g, days, n) ==
    IF n <= 0 THEN 0
    ELSE TotalStress(ctx, g, days, n - 1) + DayStress(ctx, g, days, n - 1)

RaiseError(kind, msg) == [status |-> "error", error |-> kind, message |-> msg]

generate_workout_plan(history, g, days, recovery) ==
    IF DOMAIN history = {}
    THEN RaiseError("ValueError", "No training history provided")
    ELSE IF AnalyzedExercises(history) = <<>>
    THEN RaiseError("ValueError", "Insufficient training data to generate plan")
    ELSE IF RaisesIndexError(days)
    THEN RaiseError("IndexError", "list index out of range")
    ELSE LET ctx == PlanContext(history, recovery)
         IN  [ status |-> "ok",
               weekly_plan |-> TrainingDayEntries(ctx, g, days, recovery, days) \o RestDayEntries(days),
               total_weekly_volume |-> RoundDiv(TotalVolume(ctx, g, days, days), 100),
               estimated_training_stress |-> RoundDiv(TotalStress(ctx, g, days, days), 100),
               progression_strategy |-> ProgressionStrategy(g, ctx.is_deload),
               recommendations |-> Recommendations(ctx, days, recovery) ]

-----------------------------------------------------------------------------
(* calculate_rpe_metrics *)

\* mutation of RpeToPercent: the percentages of RPE 9 and 9.5 are swapped
RpeToPercent_Swapped(rpe) ==
    CASE rpe = 10000 -> 100
      [] rpe = 9500  -> 94
      [] rpe = 9000  -> 97
      [] rpe = 8500  -> 91
      [] rpe = 8000  -> 88
      [] rpe = 7500  -> 85
      [] rpe = 7000  -> 82
      [] rpe = 6500  -> 79
      [] rpe = 6000  -> 76
      [] OTHER       -> 70

\* rpe_to_percent.get(rpe, 70)
RpeToPercent(rpe) ==
    CASE rpe = 10000 -> 100
      [] rpe = 9500  -> 97
      [] rpe = 9000  -> 94
      [] rpe = 8500  -> 91
      [] rpe = 8000  -> 88
      [] rpe = 7500  -> 85
      [] rpe = 7000  -> 82
      [] rpe = 6500  -> 79
      [] rpe = 6000  -> 76
      [] OTHER       -> 70

\* mutation of calculate_rpe_metrics: the RPE multiplier is 0.5 - (rpe / 10) * 0.5
calculate_rpe_metrics_Minus(weight, reps, rpe) ==
    LET intensity_percent == RpeToPercent(rpe)
        base_volume == weight * reps
        rpe_multiplier == 500 - rpe \div 20
    IN  [ adjusted_volume |-> RoundDiv(base_volume * (rpe_multiplier \div 5), 2000),
          training_stress |-> RoundDiv(intensity_percent * base_volume, 1000),
          rpe_efficiency |-> RoundDiv(10000 - rpe, 100),
          estimated_1rm |-> RoundDiv(weight * 10, intensity_percent) ]

\* the returned fields are rounded to 2 decimals: integers in hundredths
calculate_rpe_metrics(weight, reps, rpe) ==
    LET intensity_percent == RpeToPercent(rpe)
        base_volume == weight * reps
        rpe_multiplier == 500 + rpe \div 20
    IN  [ adjusted_volume |-> RoundDiv(base_volume * (rpe_multiplier \div 5), 2000),
          training_stress |-> RoundDiv(intensity_percent * base_volume, 1000),
          rpe_efficiency |-> RoundDiv(10000 - rpe, 100),
          estimated_1rm |-> RoundDiv(weight * 10, intensity_percent) ]

-----------------------------------------------------------------------------
(* predict_next_strength *)

\* weights = [session.get('weight', 0) for session in sessions[-5:]]
LastWeights(sessions) ==
    LET last5 == LastN(sessions, 5)
    IN  [i \in 1..Len(last5) |-> Get(last5[i].weight, 0)]

\* 2 * sum((x - mean(x)) * (y - mean(y))) for x = 0..n-1, which is sum((2x - (n-1)) * y)
Sxy2(weights) ==
    LET n == Len(weights)
    IN  SumSeq([i \in 1..n |-> (2 * (i - 1) - (n - 1)) * weights[i]])

\* predicted_weight = slope * n + intercept with slope = Sxy / Sxx, Sxx = n(n^2 - 1) / 12 and
\* intercept = mean(y) - slope * mean(x), which is ((n-1) * sum(y) + 3 * Sxy2) / (n(n-1));
\* rounded to 1 decimal: an integer in tenths
FitNext(weights) ==
    LET n == Len(weights)
    IN  RoundDiv((n - 1) * SumSeq(weights) + 3 * Sxy2(weights), n * (n - 1) * 100)

RECURSIVE SqrtBetween(_, _, _)
\* the largest k in lo..hi with k * k <= v
SqrtBetween(v, lo, hi) ==
    IF lo >= hi THEN lo
    ELSE LET mid == (lo + hi + 1) \div 2
         IN  IF mid * mid <= v THEN SqrtBetween(v, mid, hi) ELSE SqrtBetween(v, lo, mid - 1)

MaxOf(weights) == CHOOSE w \in {weights[i] : i \in 1..Len(weights)} :
                        \A i \in 1..Len(weights) : weights[i] <= w

MinOf(weights) == CHOOSE w \in {weights[i] : i \in 1..Len(weights)} :
                        \A i \in 1..Len(weights) : w <= weights[i]

\* 100 / (1 + np.std(weights)) in tenths, for weights no more than 2.2 kg apart;
\* np.std is the population deviation sqrt(sum((n*y - sum(y))^2) / n^3), here in units of 1/10000
Consistency(weights) ==
    LET n == Len(weights)
        total == SumSeq(weights)
        q == SumSeq([i \in 1..n |-> (n * weights[i] - total) * (n * weights[i] - total)])
        n3 == n * n * n
        variance == (q \div n3) * 100 + ((q % n3) * 100) \div n3
        std == SqrtBetween(variance, 0, 22000)
    IN  RoundDiv(10000 * Milli, 10 * Milli + std)

\* mutation of Confidence: the max(60.0, ...) is dropped
Confidence_NoFloor(weights) ==
    IF MaxOf(weights) - MinOf(weights) >= 2200 THEN 500
    ELSE Min2(950, Consistency(weights))

\* confidence = min(95.0, max(60.0, consistency * 100)), in tenths; weights 2.2 kg or more apart
\* have a deviation of at least 2.2 / sqrt(10) > 2/3, which gives the floor of 60
Confidence(weights) ==
    IF MaxOf(weights) - MinOf(weights) >= 2200 THEN 600
    ELSE Min2(950, Max2(600, Consistency(weights)))

\* mutation of Trend: the first weight is taken from the whole session list
Trend_WholeHistory(sessions) ==
    LET weights == LastWeights(sessions)
    IN  IF Len(weights) > 1 /\ weights[Len(weights)] > Get(sessions[1].weight, 0)
        THEN "increasing" ELSE "stable"

\* "increasing" if len(weights) > 1 and weights[-1] > weights[0] else "stable"
Trend(sessions) ==
    LET weights == LastWeights(sessions)
    IN  IF Len(weights) > 1 /\ weights[Len(weights)] > weights[1]
        THEN "increasing" ELSE "stable"

\* mutation of predict_next_strength: the conservative progression of a single session is 2.5 kg
predict_next_strength_AddKg(sessions) ==
    IF sessions = <<>>
    THEN RaiseError("ValueError", "No training data provided")
    ELSE LET weights == LastWeights(sessions)
         IN  [ status |-> "ok",
               predicted_weight |-> IF Len(weights) < 2
                                    THEN RoundDiv(weights[1] + 2500, 100)
                                    ELSE FitNext(weights),
               confidence |-> IF Len(weights) < 2 THEN 500 ELSE Confidence(weights),
               trend |-> Trend(sessions) ]

\* predicted_weight and confidence are rounded to 1 decimal: integers in tenths
predict_next_strength(sessions) ==
    IF sessions = <<>>
    THEN RaiseError("ValueError", "No training data provided")
    ELSE LET weights == LastWeights(sessions)
         IN  [ status |-> "ok",
               predicted_weight |-> IF Len(weights) < 2
                                    THEN RoundDiv(weights[1] * 1025, 100 * Milli)
                                    ELSE FitNext(weights),
               confidence |-> IF Len(weights) < 2 THEN 500 ELSE Confidence(weights),
               trend |-> Trend(sessions) ]

-----------------------------------------------------------------------------
(* calculate_recovery_score *)

\* mutation of TimeRecovery: the min(100, ...) is dropped
TimeRecovery_Uncapped(hours_since) == RoundDiv(hours_since * 100, 48)

\* time_recovery, in thousandths of a percent: full recovery in 48h
TimeRecovery(hours_since) == Min2(100 * Milli, RoundDiv(hours_since * 100, 48))

\* the weighted average recovery_score before rounding, in units of 1/100000
WeightedRecovery(last_rpe, hours_since, sleep, stress, soreness) ==
    LET time_recovery == TimeRecovery(hours_since)
        sleep_recovery == sleep * 10
        stress_recovery == (10 * Milli - stress) * 10
        soreness_recovery == (10 * Milli - soreness) * 10
        rpe_recovery == (10 * Milli - last_rpe) * 10
    IN  time_recovery * 30 + sleep_recovery * 25 + stress_recovery * 20
            + soreness_recovery * 15 + rpe_recovery * 10

\* mutation of Readiness: the Excellent band starts above 85
Readiness_Above(weighted) ==
    IF weighted > 85 * Milli * 100
    THEN [readiness |-> "Excellent", recommended_rpe |-> 9000,
          recommendations |-> <<"Go for a PR attempt", "High intensity training ready">>]
    ELSE IF weighted >= 70 * Milli * 100
    THEN [readiness |-> "Good", recommended_rpe |-> 7500,
          recommendations |-> <<"Normal training intensity", "Focus on technique">>]
    ELSE IF weighted >= 50 * Milli * 100
    THEN [readiness |-> "Moderate", recommended_rpe |-> 6000,
          recommendations |-> <<"Light to moderate training", "Extra warm-up needed">>]
    ELSE [readiness |-> "Poor", recommended_rpe |-> 4000,
          recommendations |-> <<"Rest day recommended", "Light mobility work only">>]

\* the band of the unrounded recovery_score
Readiness(weighted) ==
    IF weighted >= 85 * Milli * 100
    THEN [readiness |-> "Excellent", recommended_rpe |-> 9000,
          recommendations |-> <<"Go for a PR attempt", "High intensity training ready">>]
    ELSE IF weighted >= 70 * Milli * 100
    THEN [readiness |-> "Good", recommended_rpe |-> 7500,
          recommendations |-> <<"Normal training intensity", "Focus on technique">>]
    ELSE IF weighted >= 50 * Milli * 100
    THEN [readiness |-> "Moderate", recommended_rpe |-> 6000,
          recommendations |-> <<"Light to moderate training", "Extra warm-up needed">>]
    ELSE [readiness |-> "Poor", recommended_rpe |-> 4000,
          recommendations |-> <<"Rest day recommended", "Light mobility work only">>]

\* recovery_score is rounded to 1 decimal: an integer in tenths
calculate_recovery_score(last_rpe, hours_since, sleep, stress, soreness) ==
    LET weighted == WeightedRecovery(last_rpe, hours_since, sleep, stress, soreness)
        band == Readiness(weighted)
    IN  [ recovery_score |-> RoundDiv(weighted, 10000),
          recommended_intensity |-> band.recommended_rpe,
          training_readiness |-> band.readiness,
          recommendations |-> band.recommendations ]

-----------------------------------------------------------------------------
(* detect_overtraining_risk *)

\* s and 'weight' in s and 'reps' in s and 'rpe' in s
ValidSession(s) == s.weight # None /\ s.reps # None /\ s.rpe # None

\* load = weight * reps * (rpe / 10), in hundredths
SessionLoad(s) == RoundDiv(RoundDiv(s.weight * s.reps, 10) * RoundDiv(s.rpe, 10), 1000)

\* 1. declining performance with high RPE
DecliningPerformance(recent_loads, rpe_trend) ==
    LET n == Len(recent_loads)
        half == n \div 2
        early == SubSeq(recent_loads, 1, half)
        late == SubSeq(recent_loads, half + 1, n)
        last4 == LastN(rpe_trend, 4)
    IN  /\ n >= 4
        /\ SumSeq(late) * half * 100 < SumSeq(early) * 95 * (n - half)
        /\ SumSeq(last4) > 8500 * Len(last4)

\* 2. RPE inflation
RpeInflation(rpe_trend) ==
    LET n == Len(rpe_trend)
        rpe_recent == LastN(rpe_trend, 3)
        rpe_baseline == SubSeq(rpe_trend, 1, n - 3)
    IN  /\ n >= 5
        /\ SumSeq(rpe_recent) * Len(rpe_baseline)
                > SumSeq(rpe_baseline) * 3 + 800 * 3 * Len(rpe_baseline)

\* mutation of HighFrequency: the volume is compared with 5 times the mean load
HighFrequency_FiveTimes(recent_loads) ==
    /\ Len(recent_loads) > 6
    /\ SumSeq(recent_loads) * Len(recent_loads) > SumSeq(recent_loads) * 5

\* 3. training frequency and volume: total_volume > mean(recent_loads) * 10
HighFrequency(recent_loads) ==
    /\ Len(recent_loads) > 6
    /\ SumSeq(recent_loads) * Len(recent_loads) > SumSeq(recent_loads) * 10

\* the triggered conditions, in the order of the code: <<points, warning sign>>
RiskFactors(valid_sessions, sleep_avg, stress_avg, motivation, hr_trend) ==
    LET week == LastN(valid_sessions, 7)
        recent_loads == [i \in 1..Len(week) |-> SessionLoad(week[i])]
        rpe_trend == [i \in 1..Len(week) |-> week[i].rpe]
    IN  (IF DecliningPerformance(recent_loads, rpe_trend)
            THEN << <<25, "Decreasing performance despite high effort">> >> ELSE <<>>)
        \o (IF RpeInflation(rpe_trend) THEN << <<20, "RPE inflation detected">> >> ELSE <<>>)
        \o (IF HighFrequency(recent_loads)
            THEN << <<15, "High training frequency and volume">> >> ELSE <<>>)
        \o (IF sleep_avg < 6000 THEN << <<20, "Poor sleep quality">> >>
            ELSE IF sleep_avg < 7000 THEN << <<10, "Suboptimal sleep quality">> >> ELSE <<>>)
        \o (IF stress_avg > 7000 THEN << <<15, "High stress levels">> >>
            ELSE IF stress_avg > 5000 THEN << <<8, "Elevated stress levels">> >> ELSE <<>>)
        \o (IF motivation < 4000 THEN << <<18, "Low training motivation">> >>
            ELSE IF motivation < 6000 THEN << <<10, "Decreased training motivation">> >> ELSE <<>>)
        \o (IF hr_trend # None /\ hr_trend # 0 /\ hr_trend > 5000
            THEN << <<15, "Elevated resting heart rate">> >> ELSE <<>>)

\* mutation of TotalRisk: the min(100, ...) is dropped
TotalRisk_Uncapped(risk_factors) ==
    SumSeq([i \in 1..Len(risk_factors) |-> risk_factors[i][1]])

\* total_risk = min(100, sum(risk_factors))
TotalRisk(risk_factors) ==
    Min2(100, SumSeq([i \in 1..Len(risk_factors) |-> risk_factors[i][1]]))

\* risk level, deload flag and recommendations of a total risk
RiskBand(total_risk) ==
    IF total_risk >= 75
    THEN [risk_level |-> "Critical", deload_suggested |-> TRUE,
          recommendations |-> <<"Immediate deload recommended", "Reduce training volume by 40-50%",
                                "Focus on sleep and stress management",
                                "Consider taking 3-5 days off training">>]
    ELSE IF total_risk >= 50
    THEN [risk_level |-> "High", deload_suggested |-> TRUE,
          recommendations |-> <<"Planned deload week recommended",
                                "Reduce training intensity to RPE 6-7",
                                "Increase recovery focus", "Monitor symptoms closely">>]
    ELSE IF total_risk >= 25
    THEN [risk_level |-> "Moderate", deload_suggested |-> FALSE,
          recommendations |-> <<"Monitor training load carefully",
                                "Ensure adequate sleep (7-9 hours)",
                                "Consider reducing volume by 10-20%",
                                "Add extra rest day this week">>]
    ELSE [risk_level |-> "Low", deload_suggested |-> FALSE,
          recommendations |-> <<"Training load appears sustainable", "Continue current program",
                                "Maintain good recovery practices">>]

\* mutation of ValidSessions: a session that lacks its rpe is kept
ValidSessions_KeepNoRpe(sessions) ==
    SelectSeq(sessions, LAMBDA s : s.weight # None /\ s.reps # None)

\* valid_sessions: the sessions that carry weight, reps and rpe
ValidSessions(sessions) == SelectSeq(sessions, ValidSession)

\* risk_percentage is rounded to 1 decimal: an integer in tenths
detect_overtraining_risk(sessions, sleep_avg, stress_avg, motivation, hr_trend) ==
    LET valid_sessions == ValidSessions(sessions)
    IN  IF Len(valid_sessions) < 5
        THEN [ risk_level |-> "Unknown",
               risk_percentage |-> 0,
               warning_signs |-> <<"Insufficient training data">>,
               recommendations |-> <<"Track at least 5 training sessions">>,
               deload_suggested |-> FALSE ]
        ELSE LET risk_factors == RiskFactors(valid_sessions, sleep_avg, stress_avg,
                                             motivation, hr_trend)
                 total_risk == TotalRisk(risk_factors)
                 band == RiskBand(total_risk)
                 warning_signs == [i \in 1..Len(risk_factors) |-> risk_factors[i][2]]
             IN  [ risk_level |-> band.risk_level,
                   risk_percentage |-> total_risk * 10,
                   warning_signs |-> IF warning_signs = <<>>
                                     THEN <<"No significant warning signs detected">>
                                     ELSE warning_signs,
                   recommendations |-> band.recommendations,
                   deload_suggested |-> band.deload_suggested ]

-----------------------------------------------------------------------------
(* The calls: inputs are drawn by Init, each action is one call *)

\* a logged session is a working set at RPE 8 or a missed lift (no load moved) at RPE 10
Sessions == { [weight |-> MaxWeightKg * Milli, rpe |-> 8000],
              [weight |-> 0, rpe |-> 10000] }

SessionLists == UNION {[1..n -> Sessions] : n \in 0..MaxSessions}

Histories == UNION {[D -> SessionLists] : D \in SUBSET Exercises}

Goals == {"strength", "hypertrophy", "maintenance", "powerlifting"}

TrainingDays == 0..MaxDays

RecoveryScores == {None, 40 * Milli, 65 * Milli, 90 * Milli}

CapRecoveries == {None} \cup {5 * k * Milli : k \in 0..20} \cup {49900, 59900, 69900, 79900}

CapAvgRpes == {100 * k : k \in 60..100}

\* 0, 0.001, 0.01, 1, 1.02, 1.03, 1.05, 60 and MaxWeightKg kg
MetricWeights == {0, 1, 10, 1 * Milli, 1020, 1030, 1050, 60 * Milli, MaxWeightKg * Milli}

MetricReps == {1, 5, 10}

MetricRpes == {100 * k : k \in 55..105}

PlanIdle ==
    /\ training_history = <<>>
    /\ goal = "hypertrophy"
    /\ training_days = 4
    /\ recovery_score = None
    /\ plan_result = Idle

CapIdle ==
    /\ cap_recovery = None
    /\ cap_avg_rpe = 0
    /\ cap_result = 0

RpeIdle ==
    /\ rpe_weight = 0
    /\ rpe_reps = 0
    /\ rpe_rpe = 0
    /\ rpe_result = Idle

CallIdle ==
    /\ call = Idle
    /\ ret = Idle

\* the process after the import: no assignment to the tables, no call made
FreshProcess ==
    /\ table_writes = <<>>
    /\ requested = Idle
    /\ log = <<>>

InitPlan ==
    /\ training_history \in Histories
    /\ goal \in Goals
    /\ training_days \in TrainingDays
    /\ recovery_score \in RecoveryScores
    /\ plan_result = Pending
    /\ CapIdle
    /\ RpeIdle
    /\ CallIdle
    /\ FreshProcess

\* mutation of table_writes_after_plan: the volume of the week is written back into the table
\* (dup_day['sets'] = max(1, int(dup_day['sets'] * 0.5)) for the days of the goal's pattern)
table_writes_after_plan_InPlace ==
    LET g == IF goal \in DOMAIN DUP_PATTERNS THEN goal ELSE "hypertrophy"
    IN  table_writes \o
        [i \in DOMAIN DUP_PATTERNS[g] |->
            [table |-> "DUP_PATTERNS", path |-> <<g, i, "sets">>,
             value |-> Max2(1, dup_patterns[g][i].sets \div 2)]]

\* the assignments to the tables after a call of generate_workout_plan: the call reads
\* EXERCISE_PROGRESSION_RATES[key], dup_day['sets'], dup_day['reps'], dup_day['intensity'] and
\* dup_day['label'] and assigns to none of them
table_writes_after_plan == table_writes

GenerateWorkoutPlan ==
    /\ plan_result = Pending
    /\ plan_result' = generate_workout_plan(training_history, goal, training_days, recovery_score)
    /\ UNCHANGED <<training_history, goal, training_days, recovery_score>>
    /\ UNCHANGED <<capVars, rpeVars, callVars>>
    /\ table_writes' = table_writes_after_plan
    /\ UNCHANGED <<requested, log>>

NextPlan == GenerateWorkoutPlan

SpecPlan == InitPlan /\ [][NextPlan]_vars

InitCap ==
    /\ cap_recovery \in CapRecoveries
    /\ cap_avg_rpe \in CapAvgRpes
    /\ cap_result = None
    /\ PlanIdle
    /\ RpeIdle
    /\ CallIdle
    /\ FreshProcess

CalculateRpeCap ==
    /\ cap_result = None
    /\ cap_result' = calculate_rpe_cap(cap_recovery, cap_avg_rpe)
    /\ UNCHANGED <<cap_recovery, cap_avg_rpe>>
    /\ UNCHANGED <<planVars, rpeVars, callVars, processVars>>

NextCap == CalculateRpeCap

SpecCap == InitCap /\ [][NextCap]_vars

InitRpe ==
    /\ rpe_weight \in MetricWeights
    /\ rpe_reps \in MetricReps
    /\ rpe_rpe \in MetricRpes
    /\ rpe_result = Pending
    /\ PlanIdle
    /\ CapIdle
    /\ CallIdle
    /\ FreshProcess

CalculateRpeMetrics ==
    /\ rpe_result = Pending
    /\ rpe_result' = calculate_rpe_metrics(rpe_weight, rpe_reps, rpe_rpe)
    /\ UNCHANGED <<rpe_weight, rpe_reps, rpe_rpe>>
    /\ UNCHANGED <<planVars, capVars, callVars, processVars>>

NextRpe == CalculateRpeMetrics

SpecRpe == InitRpe /\ [][NextRpe]_vars

\* the plan calls of the 1RM specification: estimated_1rm depends on the history alone
InitOneRmPlan ==
    /\ training_history \in Histories
    /\ goal \in {"strength", "hypertrophy"}
    /\ training_days \in {1, 3}
    /\ recovery_score \in {None, 40 * Milli}
    /\ plan_result = Pending
    /\ CapIdle
    /\ RpeIdle
    /\ CallIdle
    /\ FreshProcess

\* the 1RM estimators of calculate_rpe_metrics and of the plan generator, called side by side
InitOneRm == InitRpe \/ InitOneRmPlan

NextOneRm == CalculateRpeMetrics \/ GenerateWorkoutPlan

SpecOneRm == InitOneRm /\ [][NextOneRm]_vars

\* plan calls on the history of one lift whose logged weight dropped from MaxWeightKg to 1 kg,
\* every set at RPE 8: sessions older than the last 3 count for avg_weight, not for estimated_1rm
RecentSets == { [weight |-> MaxWeightKg * Milli, rpe |-> 8000],
                [weight |-> 1 * Milli, rpe |-> 8000] }

DetrainingHistories ==
    {[e \in {"bench_press"} |-> s] : s \in UNION {[1..n -> RecentSets] : n \in 2..MaxRecentSessions}}

InitDetraining ==
    /\ training_history \in DetrainingHistories
    /\ goal \in Goals
    /\ training_days \in 1..7
    /\ recovery_score \in RecoveryScores
    /\ plan_result = Pending
    /\ CapIdle
    /\ RpeIdle
    /\ CallIdle
    /\ FreshProcess

SpecDetraining == InitDetraining /\ [][NextPlan]_vars

\* plan calls on histories of up to three lifts with unequal numbers of sessions: a lift is not
\* logged, logged with 2 sessions of any kind, or logged with 1 or 3 or more missed lifts
WeekHistories ==
    LET lists == { s \in UNION {[1..n -> Sessions] : n \in 1..MaxWeekSessions} :
                      Len(s) # 2 => \A i \in 1..Len(s) : s[i].rpe = 10000 }
    IN  UNION {[D -> lists] : D \in SUBSET Exercises}

InitWeek ==
    /\ training_history \in WeekHistories
    /\ goal \in Goals
    /\ training_days \in TrainingDays
    /\ recovery_score \in RecoveryScores
    /\ plan_result = Pending
    /\ CapIdle
    /\ RpeIdle
    /\ CallIdle
    /\ FreshProcess

SpecWeek == InitWeek /\ [][NextPlan]_vars

\* calls of calculate_recovery_score
RecoveryArgs ==
    [last_rpe : {0, 6900, 7000, 9500, 10000},
     hours_since : {-24 * Milli, 0, 12 * Milli, 48 * Milli, MaxHours * Milli},
     sleep : {0, 4000, 9000, 10000, 11000},
     stress : {0, 2000, 9000, 10000},
     soreness : {0, 1000, 1020, 1100, 8000, 10000}]

InitRecovery ==
    /\ call \in [fn : {"calculate_recovery_score"}, args : RecoveryArgs]
    /\ ret = Pending
    /\ PlanIdle
    /\ CapIdle
    /\ RpeIdle
    /\ FreshProcess

CalculateRecoveryScore ==
    /\ call # Idle
    /\ call.fn = "calculate_recovery_score"
    /\ ret = Pending
    /\ ret' = calculate_recovery_score(call.args.last_rpe, call.args.hours_since, call.args.sleep,
                                       call.args.stress, call.args.soreness)
    /\ UNCHANGED call
    /\ UNCHANGED <<planVars, capVars, rpeVars, processVars>>

NextRecovery == CalculateRecoveryScore

SpecRecovery == InitRecovery /\ [][NextRecovery]_vars

\* calls of detect_overtraining_risk: a moderate session, a lighter session at high effort,
\* a session logged without its rpe, and an empty session
RiskSessions == { [weight |-> MaxWeightKg * Milli, reps |-> 5, rpe |-> 7000],
                  [weight |-> 60 * Milli, reps |-> 5, rpe |-> 9500],
                  [weight |-> MaxWeightKg * Milli, reps |-> 5, rpe |-> None],
                  [weight |-> None, reps |-> None, rpe |-> None] }

RiskSessionLists == UNION {[1..n -> RiskSessions] : n \in 0..MaxRiskSessions}

RiskArgs ==
    [sessions : RiskSessionLists, sleep_avg : {5000, 6500, 8000}, stress_avg : {4000, 6000, 8000},
     motivation : {3000, 5000, 8000}, hr_trend : {None, 6000}]

InitOvertraining ==
    /\ call \in [fn : {"detect_overtraining_risk"}, args : RiskArgs]
    /\ ret = Pending
    /\ PlanIdle
    /\ CapIdle
    /\ RpeIdle
    /\ FreshProcess

DetectOvertrainingRisk ==
    /\ call # Idle
    /\ call.fn = "detect_overtraining_risk"
    /\ ret = Pending
    /\ ret' = detect_overtraining_risk(call.args.sessions, call.args.sleep_avg, call.args.stress_avg,
                                       call.args.motivation, call.args.hr_trend)
    /\ UNCHANGED call
    /\ UNCHANGED <<planVars, capVars, rpeVars, processVars>>

NextOvertraining == DetectOvertrainingRisk

SpecOvertraining == InitOvertraining /\ [][NextOvertraining]_vars

\* calls of detect_overtraining_risk with 6 sessions or more, all valid: a moderate session,
\* a lighter session at high effort, a rest entry logged with no load, and a session logged
\* with a negative weight
InitFrequency ==
    /\ call \in [fn : {"detect_overtraining_risk"},
                  args : [sessions : UNION {[1..n -> { [weight |-> MaxWeightKg * Milli, reps |-> 5, rpe |-> 7000],
                                                      [weight |-> 60 * Milli, reps |-> 5, rpe |-> 9500],
                                                      [weight |-> 0, reps |-> 0, rpe |-> 0],
                                                      [weight |-> (0 - 60) * Milli, reps |-> 5, rpe |-> 7000] }]
                                            : n \in 6..MaxFrequencySessions},
                          sleep_avg : {5000, 8000}, stress_avg : {4000}, motivation : {8000},
                          hr_trend : {None}]]
    /\ ret = Pending
    /\ PlanIdle
    /\ CapIdle
    /\ RpeIdle
    /\ FreshProcess

SpecFrequency == InitFrequency /\ [][NextOvertraining]_vars

\* calls of predict_next_strength: sets at 20, 60, 100 and 100.5 kg and a set logged without weight
StrengthSessions == {[weight |-> w] : w \in {None, 20 * Milli, 60 * Milli, 100 * Milli, 100500}}

StrengthSessionLists == UNION {[1..n -> StrengthSessions] : n \in 0..MaxStrengthSessions}

InitStrength ==
    /\ call \in [fn : {"predict_next_strength"}, args : [sessions : StrengthSessionLists]]
    /\ ret = Pending
    /\ PlanIdle
    /\ CapIdle
    /\ RpeIdle
    /\ FreshProcess

PredictNextStrength ==
    /\ call # Idle
    /\ call.fn = "predict_next_strength"
    /\ ret = Pending
    /\ ret' = predict_next_strength(call.args.sessions)
    /\ UNCHANGED call
    /\ UNCHANGED <<planVars, capVars, rpeVars, processVars>>

NextStrength == PredictNextStrength

SpecStrength == InitStrength /\ [][NextStrength]_vars

\* a run of calls in one process: the caller makes up to MaxCalls calls of the five functions,
\* one after the other, and keeps what each returned
SessionPlanArgs ==
    [training_history :
        {[e \in {"Squat", "bench_press"} |->
            << [weight |-> 100 * Milli, rpe |-> 8000], [weight |-> 100 * Milli, rpe |-> 8000] >>]},
     goal : {"strength"}, training_days : {3}, recovery_score : {40 * Milli, 90 * Milli}]

SessionMetricArgs ==
    { [weight |-> 100 * Milli, reps |-> 5, rpe |-> 8000],
      [weight |-> 60 * Milli, reps |-> 10, rpe |-> 6500] }

SessionRecoveryArgs ==
    { [last_rpe |-> 7000, hours_since |-> 48 * Milli, sleep |-> 9000, stress |-> 2000,
       soreness |-> 1000],
      [last_rpe |-> 9500, hours_since |-> 12 * Milli, sleep |-> 4000, stress |-> 9000,
       soreness |-> 8000] }

SessionRiskArgs ==
    { [sessions |-> [i \in 1..5 |-> [weight |-> 100 * Milli, reps |-> 5, rpe |-> 7000]],
       sleep_avg |-> 5000, stress_avg |-> 8000, motivation |-> 3000, hr_trend |-> None],
      [sessions |-> <<>>,
       sleep_avg |-> 8000, stress_avg |-> 4000, motivation |-> 8000, hr_trend |-> None] }

SessionStrengthArgs ==
    { [sessions |-> << [weight |-> 100 * Milli] >>],
      [sessions |-> << [weight |-> 100 * Milli], [weight |-> 60 * Milli], [weight |-> 20 * Milli] >>] }

\* the last call made, read from the arguments as they are now
ActiveCall ==
    IF requested = Idle THEN Idle
    ELSE IF requested.fn = "generate_workout_plan"
    THEN [fn |-> "generate_workout_plan",
          args |-> [training_history |-> training_history, goal |-> goal,
                    training_days |-> training_days, recovery_score |-> recovery_score]]
    ELSE IF requested.fn = "calculate_rpe_metrics"
    THEN [fn |-> "calculate_rpe_metrics",
          args |-> [weight |-> rpe_weight, reps |-> rpe_reps, rpe |-> rpe_rpe]]
    ELSE call

\* what the last call returned, Pending before it returns, Idle before the first call
ActiveRet ==
    IF requested = Idle THEN Idle
    ELSE IF requested.fn = "generate_workout_plan" THEN plan_result
    ELSE IF requested.fn = "calculate_rpe_metrics" THEN rpe_result
    ELSE ret

\* the log once the last call is added to it
Logged ==
    IF requested = Idle THEN log ELSE Append(log, [call |-> requested, ret |-> ActiveRet])

InitSession ==
    /\ PlanIdle
    /\ CapIdle
    /\ RpeIdle
    /\ CallIdle
    /\ FreshProcess

\* the caller makes its next call when the last one has returned; the arguments and results of
\* the other functions stay where the earlier calls left them
RequestPlan ==
    \E args \in SessionPlanArgs :
        /\ ActiveRet # Pending
        /\ Len(Logged) < MaxCalls
        /\ log' = Logged
        /\ requested' = [fn |-> "generate_workout_plan", args |-> args]
        /\ training_history' = args.training_history
        /\ goal' = args.goal
        /\ training_days' = args.training_days
        /\ recovery_score' = args.recovery_score
        /\ plan_result' = Pending
        /\ UNCHANGED <<capVars, rpeVars, callVars, table_writes>>

RequestMetrics ==
    \E args \in SessionMetricArgs :
        /\ ActiveRet # Pending
        /\ Len(Logged) < MaxCalls
        /\ log' = Logged
        /\ requested' = [fn |-> "calculate_rpe_metrics", args |-> args]
        /\ rpe_weight' = args.weight
        /\ rpe_reps' = args.reps
        /\ rpe_rpe' = args.rpe
        /\ rpe_result' = Pending
        /\ UNCHANGED <<planVars, capVars, callVars, table_writes>>

RequestRecovery ==
    \E args \in SessionRecoveryArgs :
        /\ ActiveRet # Pending
        /\ Len(Logged) < MaxCalls
        /\ log' = Logged
        /\ requested' = [fn |-> "calculate_recovery_score", args |-> args]
        /\ call' = [fn |-> "calculate_recovery_score", args |-> args]
        /\ ret' = Pending
        /\ UNCHANGED <<planVars, capVars, rpeVars, table_writes>>

RequestRisk ==
    \E args \in SessionRiskArgs :
        /\ ActiveRet # Pending
        /\ Len(Logged) < MaxCalls
        /\ log' = Logged
        /\ requested' = [fn |-> "detect_overtraining_risk", args |-> args]
        /\ call' = [fn |-> "detect_overtraining_risk", args |-> args]
        /\ ret' = Pending
        /\ UNCHANGED <<planVars, capVars, rpeVars, table_writes>>

RequestStrength ==
    \E args \in SessionStrengthArgs :
        /\ ActiveRet # Pending
        /\ Len(Logged) < MaxCalls
        /\ log' = Logged
        /\ requested' = [fn |-> "predict_next_strength", args |-> args]
        /\ call' = [fn |-> "predict_next_strength", args |-> args]
        /\ ret' = Pending
        /\ UNCHANGED <<planVars, capVars, rpeVars, table_writes>>

NextSession ==
    \/ RequestPlan
    \/ RequestMetrics
    \/ RequestRecovery
    \/ RequestRisk
    \/ RequestStrength
    \/ GenerateWorkoutPlan
    \/ CalculateRpeMetrics
    \/ CalculateRecoveryScore
    \/ DetectOvertrainingRisk
    \/ PredictNextStrength

SpecSession == InitSession /\ [][NextSession]_vars

-----------------------------------------------------------------------------
(* Properties *)

PlanOk == plan_result.status = "ok"

PlanReturned == plan_result.status \in {"ok", "error"}

\* the weekly_plan entries that carry exercises
HasExercises(entry) == entry.exercises # <<>>

\* an exercise has 2 or more sessions in its trailing-12 window
HasTwoSessions(sessions) == Len(LastN(sessions, 12)) >= 2

SomeQualifying == \E e \in DOMAIN training_history : HasTwoSessions(training_history[e])

Deloaded(recovery) == PlanContext(training_history, recovery).is_deload

\* C1: every returned plan has exactly 7 entries, labelled Monday..Sunday each exactly once,
\* with all entries that carry exercises before all rest-day entries
C1_SevenWeekdays ==
    PlanOk =>
        LET wp == plan_result.weekly_plan
        IN  /\ Len(wp) = 7
            /\ \A d \in 1..7 : Cardinality({k \in 1..Len(wp) : wp[k].day = day_names[d]}) = 1
            /\ \A j, k \in 1..Len(wp) : (j < k /\ HasExercises(wp[k])) => HasExercises(wp[j])

\* C2: when deload is triggered, every assigned exercise's weight_kg is lower than the weight_kg
\* the same exercise gets on the same day from the same history, goal and training_days
\* in a call where deload is not triggered
C2_DeloadLowersEveryWeight ==
    (PlanOk /\ Deloaded(recovery_score)) =>
        \A r \in RecoveryScores :
            ~Deloaded(r) =>
                LET base == generate_workout_plan(training_history, goal, training_days, r).weekly_plan
                    wp == plan_result.weekly_plan
                IN  \A k \in 1..Len(wp) : \A j \in 1..Len(wp[k].exercises) :
                        wp[k].exercises[j].weight_kg < base[k].exercises[j].weight_kg

\* C3: an empty history map fails with 'No training history provided'; a non-empty map in which
\* no exercise has 2 sessions fails with 'Insufficient training data to generate plan';
\* the failed call carries no plan
C3_FailureModes ==
    PlanReturned =>
        /\ (DOMAIN training_history = {}) =>
                plan_result = [status |-> "error", error |-> "ValueError",
                               message |-> "No training history provided"]
        /\ (DOMAIN training_history # {} /\ ~SomeQualifying) =>
                plan_result = [status |-> "error", error |-> "ValueError",
                               message |-> "Insufficient training data to generate plan"]
        /\ (plan_result.status = "error") => ~("weekly_plan" \in DOMAIN plan_result)

\* a call on a non-empty map without a qualifying exercise has failed
C3_Witness ==
    /\ plan_result.status = "error"
    /\ DOMAIN training_history # {}
    /\ \E e \in DOMAIN training_history : Len(training_history[e]) = 1
    /\ plan_result.message = "Insufficient training data to generate plan"

\* C4: with at least one exercise of 2 or more sessions the call succeeds,
\* for every goal, every training_days and every recovery score
C4_NoOtherFailure ==
    (PlanReturned /\ SomeQualifying) => PlanOk

\* C5 as stated: a plan with at least one non-empty exercise list has
\* total_weekly_volume > 0 and estimated_training_stress > 0
C5_PositiveTotals ==
    (PlanOk /\ \E k \in 1..Len(plan_result.weekly_plan) : HasExercises(plan_result.weekly_plan[k])) =>
        /\ plan_result.total_weekly_volume > 0
        /\ plan_result.estimated_training_stress > 0

\* every logged weight of the history is at least 1 kg
AllWeightsAtLeast1Kg ==
    \A e \in DOMAIN training_history : \A i \in 1..Len(training_history[e]) :
        training_history[e][i].weight # None /\ training_history[e][i].weight >= 1 * Milli

\* C5 amended: a plan with at least one non-empty exercise list, generated from a history whose
\* logged weights are all at least 1 kg, has total_weekly_volume > 0 and estimated_training_stress > 0
C5_PositiveTotalsForPositiveWeights ==
    (PlanOk /\ AllWeightsAtLeast1Kg
        /\ \E k \in 1..Len(plan_result.weekly_plan) : HasExercises(plan_result.weekly_plan[k])) =>
        /\ plan_result.total_weekly_volume > 0
        /\ plan_result.estimated_training_stress > 0

\* a deload plan from positive weights in which some training day was skipped and a later one kept
C5_Witness ==
    /\ PlanOk
    /\ AllWeightsAtLeast1Kg
    /\ Deloaded(recovery_score)
    /\ training_days = 3
    /\ Len(plan_result.weekly_plan) < 7
    /\ \E k \in 1..Len(plan_result.weekly_plan) : HasExercises(plan_result.weekly_plan[k])
    /\ plan_result.total_weekly_volume > 0
    /\ plan_result.estimated_training_stress > 0

\* C6: every exercise with 2 or more sessions appears in the exercise list of
\* at least one day of the returned plan, for every training_days >= 1
C6_EveryExerciseAssigned ==
    (PlanOk /\ training_days >= 1) =>
        \A e \in DOMAIN training_history :
            HasTwoSessions(training_history[e]) =>
                \E k \in 1..Len(plan_result.weekly_plan) :
                    \E j \in 1..Len(plan_result.weekly_plan[k].exercises) :
                        plan_result.weekly_plan[k].exercises[j].exercise = e

\* mean of the last 5 logged weights, thousandths of a kg
RecentAverageWeight(sessions) ==
    LET last5 == LastN(sessions, 5)
    IN  RoundDiv(SumSeq([i \in 1..Len(last5) |-> Get(last5[i].weight, 0)]), Len(last5))

\* C7: without deload and for a goal other than maintenance, the weight_kg of every assigned
\* exercise is higher than the mean of that exercise's last 5 session weights
C7_ProgressiveOverload ==
    (PlanOk /\ ~Deloaded(recovery_score) /\ goal # "maintenance") =>
        \A k \in 1..Len(plan_result.weekly_plan) :
            \A j \in 1..Len(plan_result.weekly_plan[k].exercises) :
                LET ex == plan_result.weekly_plan[k].exercises[j]
                IN  ex.weight_kg * 100 > RecentAverageWeight(training_history[ex.exercise])

\* C8: for the same history, goal and training_days, the plan of a recovery score below 50 has a
\* strictly lower estimated_training_stress than the plan of a recovery score of 80 or above
C8_LowRecoveryLowersStress ==
    (PlanOk /\ recovery_score # None /\ recovery_score < 50 * Milli) =>
        \A r \in RecoveryScores :
            (r # None /\ r >= 80 * Milli) =>
                LET high == generate_workout_plan(training_history, goal, training_days, r)
                IN  plan_result.estimated_training_stress < high.estimated_training_stress

CapReturned == cap_result > 0

\* C9: for recovery scores r1 <= r2 and average recent efforts a1 >= a2,
\* calculate_rpe_cap(r1, a1) <= calculate_rpe_cap(r2, a2)
C9_CapMonotone ==
    (CapReturned /\ cap_recovery # None) =>
        \A r2 \in CapRecoveries \ {None} : \A a2 \in CapAvgRpes :
            (cap_recovery <= r2 /\ cap_avg_rpe >= a2) =>
                cap_result <= calculate_rpe_cap(r2, a2)

\* a cap lowered by the recovery score and met by the fatigue adjustment
C9_Witness ==
    /\ CapReturned
    /\ cap_recovery # None
    /\ cap_recovery < 60 * Milli
    /\ cap_avg_rpe > 8500
    /\ cap_result = 7500

MetricsReturned == rpe_result # Idle /\ rpe_result # Pending

\* the half-point RPE values 6.0, 6.5, ..., 10.0
TableRpes == {500 * k : k \in 12..20}

InRpeRange(r) == 6000 <= r /\ r <= 10000

\* a weight given to at most 2 decimals
TwoDecimals(w) == w % 10 = 0

\* the estimated 1RM the plan generator derives is at least every weight of the last 3 sessions
PlanOneRmAtLeastBestSet ==
    PlanOk =>
        \A e \in DOMAIN training_history :
            HasTwoSessions(training_history[e]) =>
                LET last3 == LastN(training_history[e], 3)
                IN  \A i \in 1..Len(last3) :
                        ExerciseAnalysis(training_history)[e].estimated_1rm >= Get(last3[i].weight, 0)

\* C10 as stated: for weight > 0 the estimated 1RM of calculate_rpe_metrics is non-increasing in rpe
\* over every rpe of [6,10], on the half-point table or not, and is >= the weight;
\* the plan generator's estimated 1RM is >= the weight of the best recent set
C10_OneRmMonotoneOnRange ==
    /\ (MetricsReturned /\ rpe_weight > 0 /\ InRpeRange(rpe_rpe)) =>
            /\ rpe_result.estimated_1rm * 10 >= rpe_weight
            /\ \A r2 \in MetricRpes :
                    (InRpeRange(r2) /\ r2 >= rpe_rpe) =>
                        calculate_rpe_metrics(rpe_weight, rpe_reps, r2).estimated_1rm
                            <= rpe_result.estimated_1rm
    /\ PlanOneRmAtLeastBestSet

\* C10 amended: for weight > 0 (given to 2 decimals) the estimated 1RM of calculate_rpe_metrics is
\* non-increasing in rpe over the half-point values 6.0, 6.5, ..., 10.0 of the table, and for every
\* rpe of [6,10] it is >= the weight; the plan generator's estimated 1RM is >= the weight of the
\* best recent set
C10_OneRmMonotoneOnTable ==
    /\ (MetricsReturned /\ rpe_weight > 0 /\ TwoDecimals(rpe_weight) /\ InRpeRange(rpe_rpe)) =>
            /\ rpe_result.estimated_1rm * 10 >= rpe_weight
            /\ rpe_rpe \in TableRpes =>
                    \A r2 \in TableRpes :
                        r2 >= rpe_rpe =>
                            calculate_rpe_metrics(rpe_weight, rpe_reps, r2).estimated_1rm
                                <= rpe_result.estimated_1rm
    /\ PlanOneRmAtLeastBestSet

\* a 1RM estimated from a set at RPE 6.5 exceeds the weight and the estimate of the same set at RPE 7
C10_Witness ==
    /\ MetricsReturned
    /\ rpe_weight > 0
    /\ rpe_rpe = 6500
    /\ rpe_result.estimated_1rm * 10 > rpe_weight
    /\ rpe_result.estimated_1rm > calculate_rpe_metrics(rpe_weight, rpe_reps, 7000).estimated_1rm

\* C11 as stated: for weight > 0, reps > 0 and rpe in [6,10] the adjusted_volume and training_stress
\* of calculate_rpe_metrics are strictly positive and strictly larger for every larger weight
\* (reps and rpe fixed); with weight = 0 both are exactly 0
C11_VolumeStressStrictlyIncreasing ==
    (MetricsReturned /\ rpe_reps > 0 /\ InRpeRange(rpe_rpe)) =>
        /\ rpe_weight > 0 =>
                /\ rpe_result.adjusted_volume > 0
                /\ rpe_result.training_stress > 0
                /\ \A w2 \in MetricWeights :
                        w2 > rpe_weight =>
                            LET more == calculate_rpe_metrics(w2, rpe_reps, rpe_rpe)
                            IN  /\ more.adjusted_volume > rpe_result.adjusted_volume
                                /\ more.training_stress > rpe_result.training_stress
        /\ rpe_weight = 0 =>
                /\ rpe_result.adjusted_volume = 0
                /\ rpe_result.training_stress = 0

\* C11 amended: for weight >= 0.01 kg, reps >= 1 and rpe in [6,10] the adjusted_volume and
\* training_stress are strictly positive; for weight > 0 they never decrease when the weight grows
\* (reps and rpe fixed) and are strictly larger when it grows by 0.02 kg or more;
\* with weight = 0 both are exactly 0
C11_VolumeStressNonDecreasing ==
    (MetricsReturned /\ rpe_reps > 0 /\ InRpeRange(rpe_rpe)) =>
        /\ rpe_weight >= 10 =>
                /\ rpe_result.adjusted_volume > 0
                /\ rpe_result.training_stress > 0
        /\ rpe_weight > 0 =>
                \A w2 \in MetricWeights :
                    LET more == calculate_rpe_metrics(w2, rpe_reps, rpe_rpe)
                    IN  /\ w2 > rpe_weight =>
                                /\ more.adjusted_volume >= rpe_result.adjusted_volume
                                /\ more.training_stress >= rpe_result.training_stress
                        /\ w2 >= rpe_weight + 20 =>
                                /\ more.adjusted_volume > rpe_result.adjusted_volume
                                /\ more.training_stress > rpe_result.training_stress
        /\ rpe_weight = 0 =>
                /\ rpe_result.adjusted_volume = 0
                /\ rpe_result.training_stress = 0

\* a single at 1.02 kg and RPE 6 has the adjusted volume 0.82 of the same single at 1.03 kg,
\* and less than the same single at 1.05 kg
C11_Witness ==
    /\ MetricsReturned
    /\ rpe_weight = 1020 /\ rpe_reps = 1 /\ rpe_rpe = 6000
    /\ rpe_result.adjusted_volume = 82
    /\ calculate_rpe_metrics(1030, 1, 6000).adjusted_volume = 82
    /\ calculate_rpe_metrics(1050, 1, 6000).adjusted_volume > 82

\* the call of fn has returned
Returned(fn) == call # Idle /\ call.fn = fn /\ ret # Pending

InUnit(v) == 0 <= v /\ v <= 10 * Milli

\* C12: for last_rpe, sleep, stress and soreness in [0,10] and hours_since >= 0
\* the recovery_score of calculate_recovery_score lies in [0,100]
C12_RecoveryScoreInRange ==
    (Returned("calculate_recovery_score")
        /\ InUnit(call.args.last_rpe) /\ InUnit(call.args.sleep)
        /\ InUnit(call.args.stress) /\ InUnit(call.args.soreness)
        /\ call.args.hours_since >= 0) =>
        (0 <= ret.recovery_score /\ ret.recovery_score <= 1000)

\* after 72 hours of rest every factor is at its best and the score is 100.0
C12_Witness ==
    /\ Returned("calculate_recovery_score")
    /\ call.args = [last_rpe |-> 0, hours_since |-> 72 * Milli, sleep |-> 10000,
                    stress |-> 0, soreness |-> 0]
    /\ ret.recovery_score = 1000

\* the arguments of a returned calculate_recovery_score call give the weighted score w
WeightedOfCall ==
    WeightedRecovery(call.args.last_rpe, call.args.hours_since, call.args.sleep,
                     call.args.stress, call.args.soreness)

\* C13: a weighted score >= 85 gives Excellent and intensity 9.0, >= 70 Good and 7.5,
\* >= 50 Moderate and 6.0, anything lower Poor and 4.0; (7,48,9,2,1) gives a score >= 85 and
\* Excellent, (9.5,12,4,9,8) a score < 50 and Poor
C13_RecoveryBands ==
    Returned("calculate_recovery_score") =>
        LET w == WeightedOfCall
            band == <<ret.training_readiness, ret.recommended_intensity>>
        IN  /\ w >= 8500000 => band = <<"Excellent", 9000>>
            /\ (7000000 <= w /\ w < 8500000) => band = <<"Good", 7500>>
            /\ (5000000 <= w /\ w < 7000000) => band = <<"Moderate", 6000>>
            /\ w < 5000000 => band = <<"Poor", 4000>>
            /\ call.args = [last_rpe |-> 7000, hours_since |-> 48 * Milli, sleep |-> 9000,
                            stress |-> 2000, soreness |-> 1000] =>
                    (ret.recovery_score >= 850 /\ ret.training_readiness = "Excellent")
            /\ call.args = [last_rpe |-> 9500, hours_since |-> 12 * Milli, sleep |-> 4000,
                            stress |-> 9000, soreness |-> 8000] =>
                    (ret.recovery_score < 500 /\ ret.training_readiness = "Poor")

\* the call on the 85 boundary has returned Excellent
C13_Witness ==
    /\ Returned("calculate_recovery_score")
    /\ call.args = [last_rpe |-> 7000, hours_since |-> 48 * Milli, sleep |-> 9000,
                    stress |-> 2000, soreness |-> 1000]
    /\ WeightedOfCall = 8500000
    /\ ret.training_readiness = "Excellent"
    /\ ret.recommended_intensity = 9000

\* the sessions of the call that carry weight, reps and rpe
CountValid ==
    Cardinality({i \in 1..Len(call.args.sessions) :
                    /\ call.args.sessions[i].weight # None
                    /\ call.args.sessions[i].reps # None
                    /\ call.args.sessions[i].rpe # None})

\* C14: detect_overtraining_risk counts only the sessions that carry weight, reps and rpe; with
\* fewer than 5 of them it returns risk_level Unknown, risk_percentage 0 and deload_suggested false,
\* whatever the sleep, stress, motivation and heart-rate inputs, and with 5 or more it does not
C14_UnknownBelowFiveValid ==
    Returned("detect_overtraining_risk") =>
        /\ CountValid < 5 =>
                /\ ret.risk_level = "Unknown"
                /\ ret.risk_percentage = 0
                /\ ret.deload_suggested = FALSE
        /\ CountValid >= 5 => ret.risk_level # "Unknown"

\* 6 sessions of which 4 are valid, with poor sleep, high stress, low motivation and a raised
\* heart rate, have returned Unknown
C14_Witness ==
    /\ Returned("detect_overtraining_risk")
    /\ Len(call.args.sessions) = 6
    /\ CountValid = 4
    /\ call.args.sleep_avg < 6000 /\ call.args.stress_avg > 7000
    /\ call.args.motivation < 4000 /\ call.args.hr_trend = 6000
    /\ ret.risk_level = "Unknown"
    /\ ret.risk_percentage = 0

\* the points of the conditions the call triggers
TriggeredPoints ==
    LET risk_factors == RiskFactors(ValidSessions(call.args.sessions), call.args.sleep_avg,
                                    call.args.stress_avg, call.args.motivation, call.args.hr_trend)
    IN  SumSeq([i \in 1..Len(risk_factors) |-> risk_factors[i][1]])

\* C15: with 5 or more valid sessions risk_percentage = min(100, sum of the triggered points),
\* which is in [0,100]; risk_level is Critical iff the risk is >= 75, High iff in [50,75),
\* Moderate iff in [25,50), Low iff < 25; deload_suggested is true exactly for High and Critical
C15_RiskBands ==
    (Returned("detect_overtraining_risk") /\ CountValid >= 5) =>
        LET risk == ret.risk_percentage
        IN  /\ risk = Min2(100, TriggeredPoints) * 10
            /\ 0 <= risk /\ risk <= 1000
            /\ ret.risk_level = "Critical" <=> risk >= 750
            /\ ret.risk_level = "High" <=> (500 <= risk /\ risk < 750)
            /\ ret.risk_level = "Moderate" <=> (250 <= risk /\ risk < 500)
            /\ ret.risk_level = "Low" <=> risk < 250
            /\ ret.deload_suggested <=> ret.risk_level \in {"High", "Critical"}

\* conditions worth more than 100 points have returned a risk of 100.0, Critical, with a deload
C15_Witness ==
    /\ Returned("detect_overtraining_risk")
    /\ CountValid >= 5
    /\ TriggeredPoints > 100
    /\ ret.risk_percentage = 1000
    /\ ret.risk_level = "Critical"
    /\ ret.deload_suggested = TRUE

\* the last-5 window of the weights of the call
WindowOfCall == LastWeights(call.args.sessions)

\* C16: predict_next_strength fails with an error and no prediction on an empty session list;
\* on exactly one session it returns predicted_weight = that weight x 1.025 and
\* confidence 50.0; [100] gives 102.5 and 50.0
C16_EmptyAndSingle ==
    Returned("predict_next_strength") =>
        /\ call.args.sessions = <<>> =>
                /\ ret.status = "error"
                /\ ~("predicted_weight" \in DOMAIN ret)
        /\ Len(call.args.sessions) = 1 =>
                /\ ret.status = "ok"
                /\ ret.predicted_weight = RoundDiv(Get(call.args.sessions[1].weight, 0) * 1025, 100000)
                /\ ret.confidence = 500
        /\ call.args.sessions = <<[weight |-> 100 * Milli]>> =>
                (ret.predicted_weight = 1025 /\ ret.confidence = 500)

\* the single session at 100 kg has returned 102.5 with confidence 50.0
C16_Witness ==
    /\ Returned("predict_next_strength")
    /\ call.args.sessions = <<[weight |-> 100 * Milli]>>
    /\ ret.predicted_weight = 1025
    /\ ret.confidence = 500

\* C17: with 2 or more sessions the confidence lies in [60,95];
\* a confidence of 50.0 is returned only for a single session
C17_ConfidenceRange ==
    (Returned("predict_next_strength") /\ ret.status = "ok") =>
        /\ Len(call.args.sessions) >= 2 => (600 <= ret.confidence /\ ret.confidence <= 950)
        /\ ret.confidence = 500 => Len(call.args.sessions) = 1

\* weights 20 kg and more apart have returned the floor of 60.0
C17_Witness ==
    /\ Returned("predict_next_strength")
    /\ Len(call.args.sessions) >= 2
    /\ MaxOf(WindowOfCall) - MinOf(WindowOfCall) >= 20 * Milli
    /\ ret.confidence = 600

\* C18: the trend is 'increasing' exactly when the last-5 window has 2 or more samples and its
\* last weight is greater than its first, and 'stable' otherwise; 2 or more equal samples give
\* 'stable' and a predicted weight equal to the common weight
C18_TrendLabel ==
    (Returned("predict_next_strength") /\ ret.status = "ok") =>
        LET weights == WindowOfCall
            n == Len(weights)
        IN  /\ ret.trend = "increasing" <=> (n >= 2 /\ weights[n] > weights[1])
            /\ ret.trend \in {"increasing", "stable"}
            /\ (n >= 2 /\ \A i \in 1..n : weights[i] = weights[1]) =>
                    (ret.trend = "stable" /\ ret.predicted_weight * 100 = weights[1])

\* six sessions whose first is lighter than the last, outside a window of equal weights,
\* have returned 'stable'
C18_Witness ==
    /\ Returned("predict_next_strength")
    /\ Len(call.args.sessions) = 6
    /\ Get(call.args.sessions[1].weight, 0) < Get(call.args.sessions[6].weight, 0)
    /\ \A i \in 1..5 : WindowOfCall[i] = 100 * Milli
    /\ ret.trend = "stable"
    /\ ret.predicted_weight = 1000

\* C19: for a non-empty session list whose weights are all positive
\* the predicted_weight is greater than 0
C19_PositivePrediction ==
    (Returned("predict_next_strength")
        /\ call.args.sessions # <<>>
        /\ \A i \in 1..Len(call.args.sessions) :
                call.args.sessions[i].weight # None /\ call.args.sessions[i].weight > 0) =>
        (ret.status = "ok" /\ ret.predicted_weight > 0)

\* C20: no call keeps hidden state.  After any run of calls of calculate_rpe_metrics,
\* predict_next_strength, calculate_recovery_score, detect_overtraining_risk and
\* generate_workout_plan, a call returns what every earlier call with the same inputs returned
\* (so what the first one returned), its inputs are as the caller passed them, and DUP_PATTERNS
\* and EXERCISE_PROGRESSION_RATES are as the module's import left them.
C20_NoHiddenState ==
    /\ dup_patterns = DUP_PATTERNS
    /\ exercise_progression_rates = EXERCISE_PROGRESSION_RATES
    /\ ActiveCall = requested
    /\ (ActiveRet # Idle /\ ActiveRet # Pending) =>
          \A i \in 1..Len(log) :
              (log[i].call.fn = requested.fn /\ log[i].call.args = requested.args)
                  => log[i].ret = ActiveRet

\* a deload plan, another function's call, then the same plan call again: all three returned
C20_Witness ==
    /\ Len(log) = 2
    /\ requested # Idle
    /\ requested.fn = "generate_workout_plan"
    /\ log[1].call = requested
    /\ log[2].call.fn # "generate_workout_plan"
    /\ plan_result # Pending
    /\ plan_result.status = "ok"
    /\ PlanContext(training_history, recovery_score).is_deload

\* C21: for 0 <= training_days <= 7, each requested day i that received an exercise yields one
\* entry labelled with weekday i, in index order; a requested day that received none yields no
\* entry; then rest-day entries with empty exercise lists follow for weekdays training_days..6.
\* The plan has 7 - (number of requested days without exercises) entries, at most training_days
\* of them carry exercises, and the weekday of a skipped day is absent
C21_DayAssembly ==
    (PlanOk /\ training_days >= 0 /\ training_days <= 7) =>
        LET wp == plan_result.weekly_plan
            ctx == PlanContext(training_history, recovery_score)
            kept == { i \in 0..(training_days - 1) : DayExerciseNames(ctx, training_days, i) # <<>> }
            skipped == (0..(training_days - 1)) \ kept
            nkept == Cardinality(kept)
        IN  /\ Len(wp) = 7 - Cardinality(skipped)
            /\ \A k \in 1..nkept :
                    /\ HasExercises(wp[k])
                    /\ \E i \in kept :
                          /\ wp[k].day = day_names[i + 1]
                          /\ Cardinality({ j \in kept : j < i }) = k - 1
            /\ \A j \in 1..(7 - training_days) :
                    /\ wp[nkept + j].day = day_names[training_days + j]
                    /\ wp[nkept + j].exercises = <<>>
            /\ Cardinality({ k \in 1..Len(wp) : HasExercises(wp[k]) }) <= training_days
            /\ \A i \in skipped : \A k \in 1..Len(wp) : wp[k].day # day_names[i + 1]

\* a 3-day plan whose Pull day received no exercise: Monday, then the rest days from Thursday
C21_Witness ==
    /\ PlanOk
    /\ training_days = 3
    /\ DayExerciseNames(PlanContext(training_history, recovery_score), 3, 1) = <<>>
    /\ Len(plan_result.weekly_plan) < 7
    /\ plan_result.weekly_plan[1].day = "Monday"
    /\ HasExercises(plan_result.weekly_plan[1])
    /\ \A k \in 1..Len(plan_result.weekly_plan) : plan_result.weekly_plan[k].day # "Tuesday"

C23_DeloadSetsFloored ==
    PlanOk =>
        LET wp == plan_result.weekly_plan
            pattern == IF goal \in DOMAIN DUP_PATTERNS THEN DUP_PATTERNS[goal]
                       ELSE DUP_PATTERNS["hypertrophy"]
            is_deload == Deloaded(recovery_score)
            template(k) == pattern[((CHOOSE i \in 0..6 : day_names[i + 1] = wp[k].day)
                                        % Len(pattern)) + 1]
        IN  \A k \in 1..Len(wp) : \A j \in 1..Len(wp[k].exercises) :
                /\ wp[k].exercises[j].sets >= 1
                /\ is_deload => wp[k].exercises[j].sets = Max2(1, template(k).sets \div 2)
                /\ ~is_deload => wp[k].exercises[j].sets = template(k).sets

\* a deload plan whose third day has a 3-set template entry and prescribes 1 set
C23_Witness ==
    /\ PlanOk
    /\ Deloaded(recovery_score)
    /\ goal = "strength"
    /\ \E k \in 1..Len(plan_result.weekly_plan) :
          /\ plan_result.weekly_plan[k].day = "Wednesday"
          /\ HasExercises(plan_result.weekly_plan[k])
          /\ plan_result.weekly_plan[k].exercises[1].sets = 1

\* C24 as stated: sets = round(template sets x deload volume multiplier) with a minimum of 1
\* (a 3-set entry under deload, 1.5, rounds to the nearest integer), reps = template reps
C24_SetsRounded ==
    PlanOk =>
        LET wp == plan_result.weekly_plan
            pattern == IF goal \in DOMAIN DUP_PATTERNS THEN DUP_PATTERNS[goal]
                       ELSE DUP_PATTERNS["hypertrophy"]
            mult == IF Deloaded(recovery_score) THEN 5 ELSE 10
            template(k) == pattern[((CHOOSE i \in 0..6 : day_names[i + 1] = wp[k].day)
                                        % Len(pattern)) + 1]
        IN  \A k \in 1..Len(wp) : \A j \in 1..Len(wp[k].exercises) :
                /\ wp[k].exercises[j].sets = Max2(1, RoundDiv(template(k).sets * mult, 10))
                /\ wp[k].exercises[j].reps = template(k).reps

\* C24 amended: sets = int(template sets x deload volume multiplier), the product cut to its
\* integer part, with a minimum of 1 (a 3-set entry under deload, 1.5, gives 1 set), and reps
\* equal the template reps unchanged
C24_SetsTruncated ==
    PlanOk =>
        LET wp == plan_result.weekly_plan
            pattern == IF goal \in DOMAIN DUP_PATTERNS THEN DUP_PATTERNS[goal]
                       ELSE DUP_PATTERNS["hypertrophy"]
            mult == IF Deloaded(recovery_score) THEN 5 ELSE 10
            template(k) == pattern[((CHOOSE i \in 0..6 : day_names[i + 1] = wp[k].day)
                                        % Len(pattern)) + 1]
        IN  \A k \in 1..Len(wp) : \A j \in 1..Len(wp[k].exercises) :
                /\ wp[k].exercises[j].sets = Max2(1, (template(k).sets * mult) \div 10)
                /\ wp[k].exercises[j].reps = template(k).reps

\* a deload plan for hypertrophy whose Monday entry keeps the 10 reps of the 3-set Volume template
\* and prescribes 1 set
C24_Witness ==
    /\ PlanOk
    /\ Deloaded(recovery_score)
    /\ goal = "hypertrophy"
    /\ plan_result.weekly_plan[1].day = "Monday"
    /\ HasExercises(plan_result.weekly_plan[1])
    /\ plan_result.weekly_plan[1].exercises[1].sets = 1
    /\ plan_result.weekly_plan[1].exercises[1].reps = 10

\* C25: for every assigned exercise on every day, target_rpe = min(7.0 + (intensity fraction of
\* the day's periodization entry - 0.65) x 10, rpe_cap); so every target_rpe is at least 7.0,
\* never exceeds the call's rpe_cap and never exceeds 9.5
C25_TargetEffort ==
    PlanOk =>
        LET wp == plan_result.weekly_plan
            pattern == IF goal \in DOMAIN DUP_PATTERNS THEN DUP_PATTERNS[goal]
                       ELSE DUP_PATTERNS["hypertrophy"]
            ctx == PlanContext(training_history, recovery_score)
            rpe_cap == calculate_rpe_cap(recovery_score, ctx.avg_recent_rpe)
            template(k) == pattern[((CHOOSE i \in 0..6 : day_names[i + 1] = wp[k].day)
                                        % Len(pattern)) + 1]
        IN  \A k \in 1..Len(wp) : \A j \in 1..Len(wp[k].exercises) :
                /\ wp[k].exercises[j].target_rpe * 100 =
                        Min2(7000 + (template(k).intensity - 65) * 100, rpe_cap)
                /\ wp[k].exercises[j].target_rpe >= 70
                /\ wp[k].exercises[j].target_rpe * 100 <= rpe_cap
                /\ wp[k].exercises[j].target_rpe <= 95

\* a strength plan whose Heavy day, 9.5 by its template, is held at the call's cap of 8.0
C25_Witness ==
    /\ PlanOk
    /\ goal = "strength"
    /\ HasExercises(plan_result.weekly_plan[1])
    /\ plan_result.weekly_plan[1].day = "Monday"
    /\ calculate_rpe_cap(recovery_score,
            PlanContext(training_history, recovery_score).avg_recent_rpe) = 8000
    /\ plan_result.weekly_plan[1].exercises[1].target_rpe = 80

\* C26: deload is triggered exactly when avg_recent_rpe > 8.7 or a recovery score is supplied
\* and is below 50, where avg_recent_rpe is the unweighted mean of the per-exercise mean efforts
\* over all analysed exercises, assigned to a day or not; with no recovery score and
\* avg_recent_rpe <= 8.7 deload is never triggered.  A deload plan is told by its strategy text
C26_DeloadTrigger ==
    PlanOk =>
        LET analysed == SelectSeq(ExerciseOrder, LAMBDA e :
                            e \in DOMAIN training_history /\ HasTwoSessions(training_history[e]))
            effort(e) == LET last5 == LastN(LastN(training_history[e], 12), 5)
                         IN  Mean([i \in 1..Len(last5) |-> Get(last5[i].rpe, 8000)])
            avg_recent_rpe == Mean([k \in 1..Len(analysed) |-> effort(analysed[k])])
            deloaded == plan_result.progression_strategy = ProgressionStrategy(goal, TRUE)
        IN  /\ deloaded <=> (avg_recent_rpe > 8700
                                \/ (recovery_score # None /\ recovery_score < 50 * Milli))
            /\ (recovery_score = None /\ avg_recent_rpe <= 8700) => ~deloaded

\* no recovery score, 3 squat sessions at RPE 10 and 2 sessions each of bench press and curl at
\* RPE 8: the mean of the three exercise means is 8.67 (the mean of the 7 sessions is 8.86)
\* and the 3-day plan, which leaves the curl out, is not a deload plan
C26_Witness ==
    /\ PlanOk
    /\ recovery_score = None
    /\ training_days = 3
    /\ DOMAIN training_history = Exercises
    /\ Len(training_history["Squat"]) = 3
    /\ \A e \in {"bench_press", "bicep_curl"} :
          /\ Len(training_history[e]) = 2
          /\ \A i \in 1..2 : training_history[e][i].rpe = 8000
    /\ PlanContext(training_history, recovery_score).avg_recent_rpe = 8667
    /\ plan_result.progression_strategy # ProgressionStrategy(goal, TRUE)

\* C27: whenever deload is triggered for a call, the effort cap of the same call is at most 8.0,
\* so every target_rpe of a deload plan is at most 8.0; a deload plan never carries the
\* uncapped 9.5 or the 8.5 cap
C27_DeloadCapped ==
    (PlanOk /\ plan_result.progression_strategy = ProgressionStrategy(goal, TRUE)) =>
        LET wp == plan_result.weekly_plan
            rpe_cap == calculate_rpe_cap(recovery_score,
                            PlanContext(training_history, recovery_score).avg_recent_rpe)
        IN  /\ rpe_cap <= 8000
            /\ \A k \in 1..Len(wp) : \A j \in 1..Len(wp[k].exercises) :
                    /\ wp[k].exercises[j].target_rpe <= 80
                    /\ wp[k].exercises[j].target_rpe # 85
                    /\ wp[k].exercises[j].target_rpe # 95

\* a deload plan brought on by effort alone, at a recovery score of 90: the cap is 8.0 and the
\* Heavy day of the strength template is prescribed at 8.0
C27_Witness ==
    /\ PlanOk
    /\ plan_result.progression_strategy = ProgressionStrategy(goal, TRUE)
    /\ recovery_score = 90 * Milli
    /\ goal = "strength"
    /\ PlanContext(training_history, recovery_score).avg_recent_rpe > 8700
    /\ HasExercises(plan_result.weekly_plan[1])
    /\ plan_result.weekly_plan[1].day = "Monday"
    /\ plan_result.weekly_plan[1].exercises[1].target_rpe = 80

\* C28: in every plan without deload the progression_strategy text describes the goal whose
\* periodization template built the days: strength with strength, hypertrophy with hypertrophy
\* (also for an unrecognised goal, which falls back to the hypertrophy template), maintenance
\* with maintenance
C28_StrategyMatchesTemplate ==
    (PlanOk /\ plan_result.progression_strategy # ProgressionStrategy(goal, TRUE)) =>
        LET wp == plan_result.weekly_plan
            used == IF goal \in DOMAIN DUP_PATTERNS THEN goal ELSE "hypertrophy"
            pattern == DUP_PATTERNS[used]
            template(k) == pattern[((CHOOSE i \in 0..6 : day_names[i + 1] = wp[k].day)
                                        % Len(pattern)) + 1]
        IN  /\ \A k \in 1..Len(wp) : \A j \in 1..Len(wp[k].exercises) :
                    /\ wp[k].exercises[j].sets = template(k).sets
                    /\ wp[k].exercises[j].reps = template(k).reps
            /\ used = "strength" =>
                    plan_result.progression_strategy = "Undulating periodization with exercise-specific progression. Rotate heavy (90%), medium (85%), and moderate (87%) days"
            /\ used = "hypertrophy" =>
                    plan_result.progression_strategy = "Daily undulating periodization: Volume day (70%), Medium day (75%), Pump day (65%). Progress exercises at realistic rates"
            /\ used = "maintenance" =>
                    plan_result.progression_strategy = "Maintenance with variety: Rotate intensities to maintain fitness without fatigue accumulation"

\* C29: for sessions whose weight, reps and effort are not negative, the 'high frequency and
\* volume' condition of detect_overtraining_risk never triggers, also when the 7-session window
\* is full: its warning is absent and the risk is made of the other conditions' points alone
C29_FrequencyNeverTriggers ==
    (/\ Returned("detect_overtraining_risk")
     /\ (\A i \in 1..Len(call.args.sessions) :
                /\ call.args.sessions[i].weight >= 0
                /\ call.args.sessions[i].reps >= 0
                /\ call.args.sessions[i].rpe >= 0)) =>
        LET valid_sessions == ValidSessions(call.args.sessions)
            week == LastN(valid_sessions, 7)
            rpe_trend == [i \in 1..Len(week) |-> week[i].rpe]
            recent_loads == [i \in 1..Len(week) |-> SessionLoad(week[i])]
            others == (IF DecliningPerformance(recent_loads, rpe_trend) THEN 25 ELSE 0)
                      + (IF RpeInflation(rpe_trend) THEN 20 ELSE 0)
                      + (IF call.args.sleep_avg < 6000 THEN 20
                         ELSE IF call.args.sleep_avg < 7000 THEN 10 ELSE 0)
                      + (IF call.args.stress_avg > 7000 THEN 15
                         ELSE IF call.args.stress_avg > 5000 THEN 8 ELSE 0)
                      + (IF call.args.motivation < 4000 THEN 18
                         ELSE IF call.args.motivation < 6000 THEN 10 ELSE 0)
                      + (IF call.args.hr_trend # None /\ call.args.hr_trend > 5000 THEN 15 ELSE 0)
        IN  /\ ~(\E i \in 1..Len(ret.warning_signs) : ret.warning_signs[i] = "High training frequency and volume")
            /\ Len(valid_sessions) >= 5 => ret.risk_percentage = Min2(100, others) * 10

\* 7 valid sessions with positive loads fill the window, and the call has returned without the
\* frequency warning
C29_Witness ==
    /\ Returned("detect_overtraining_risk")
    /\ \A i \in 1..Len(call.args.sessions) :
            /\ call.args.sessions[i].weight >= 0
            /\ call.args.sessions[i].reps >= 0
            /\ call.args.sessions[i].rpe >= 0
    /\ Len(ValidSessions(call.args.sessions)) = 7
    /\ \A i \in 1..7 : call.args.sessions[i].weight > 0
    /\ ~(\E i \in 1..Len(ret.warning_signs) : ret.warning_signs[i] = "High training frequency and volume")
    /\ ret.risk_level = "Low"

\* C30: the recovery_score that calculate_recovery_score reports (the weighted score rounded to
\* one decimal) and its training_readiness agree with the thresholds: the score is >= 85 iff
\* the readiness is Excellent, in [70,85) iff Good, in [50,70) iff Moderate, < 50 iff Poor
C30_ScoreMatchesReadiness ==
    Returned("calculate_recovery_score") =>
        /\ ret.recovery_score >= 850 <=> ret.training_readiness = "Excellent"
        /\ (700 <= ret.recovery_score /\ ret.recovery_score < 850)
                <=> ret.training_readiness = "Good"
        /\ (500 <= ret.recovery_score /\ ret.recovery_score < 700)
                <=> ret.training_readiness = "Moderate"
        /\ ret.recovery_score < 500 <=> ret.training_readiness = "Poor"

====
